---- MODULE Spec2Model ----
(***************************************************************************)
(* State-machine model of the temprano watchtower work pipeline: the txs   *)
(* table (src/src/db.rs), the per-chain scheduler and its broadcast tasks  *)
(* (src/src/scheduler.rs), the receipt/nonce watcher (src/src/watcher.rs), *)
(* the submit and cancel handlers (src/src/api.rs) and the ready index.    *)
(*                                                                         *)
(* Time is counted in ticks of 1000/TicksPerSecond milliseconds.  Every    *)
(* SQL statement is one atomic step; a handler that awaits between         *)
(* statements on which other agents can interleave (a broadcast task, a    *)
(* watcher tick) is split at those awaits.                                 *)
(***************************************************************************)
EXTENDS Integers, Sequences, FiniteSets, TLC

VARIABLES
    pool,          \* the signed transactions the clients of this run hold
    now,           \* wall clock, in ticks
    rows,          \* the txs table: TxIds -> row ("absent" before insert)
    ready,         \* index zone watchtower:ready:<chain>: TxIds -> score
    retry,         \* index zone watchtower:retry:<chain>: TxIds -> score
    tasks,         \* broadcast tasks in flight
    nextTid,       \* serial number of the next spawned task
    watcher,       \* the watcher loop: position, snapshot, pending rows
    sent,          \* history: whether a row's bytes reached an endpoint,
                   \*   and whether they ever did before eligible_at
    lastUntil,     \* history: lease_until granted by the last acquisition,
                   \*   until a write clears the lease
    cancelledEarly,\* history: rows canceled while their group was unripe
    call           \* the last request or function call with its result

vars == <<pool, now, rows, ready, retry, tasks, nextTid, watcher,
          sent, lastUntil, cancelledEarly, call>>

-----------------------------------------------------------------------------
(* Bounds of the model *)

MaxTime == 4
MaxTasks == 3
MaxGroupTasks == 1

(* Configuration (src/src/config.rs SchedulerConfig) *)

TicksPerSecond == 2
LeaseTtlSeconds == 1
MaxConcurrency == 2
RetryMinMs == 500
RetryMaxMs == 1000
MaxShift == 10

(* SQL NULL / Option::None for times, owners and error texts *)

NoTime == -1
NoOwner == "none"
NoError == "none"
NoCall == [op |-> "none"]

TxIds == {1, 2}
Schedulers == {"s1", "s2"}
MsPerTick == 1000 \div TicksPerSecond

(* models.rs TxStatus, plus "absent" for a (chain_id, tx_hash) not stored *)

Queued == "queued"
Broadcasting == "broadcasting"
RetryScheduled == "retry_scheduled"
Executed == "executed"
Expired == "expired"
Invalid == "invalid"
StaleByNonce == "stale_by_nonce"
CanceledLocally == "canceled_locally"
Absent == "absent"

ActiveStatuses == {Queued, Broadcasting, RetryScheduled}
TerminalStatuses == {Executed, Expired, Invalid, StaleByNonce, CanceledLocally}

Min(a, b) == IF a <= b THEN a ELSE b
Max(a, b) == IF a >= b THEN a ELSE b

(* DateTime::timestamp(): whole seconds of a time in ticks *)
Timestamp(t) == t \div TicksPerSecond

(* api.rs datetime_from_ts: a unix-second value as a time in ticks *)
DatetimeFromTs(ts) == ts * TicksPerSecond

-----------------------------------------------------------------------------
(* The signed transactions clients hold (tx.rs ParsedTx): one sender, one  *)
(* non-random nonce key, hence one group; nonces 0, 1, ...; validity       *)
(* bounds in unix seconds.                                                 *)

ParsedTx(id) ==
    [ tx_hash      |-> id,
      sender       |-> "alice",
      nonce_key    |-> "k1",
      nonce        |-> id - 1,
      valid_after  |-> IF id = 1 THEN NoTime ELSE 1,
      valid_before |-> IF id = 1 THEN NoTime ELSE 2 ]

IsRandomNonceKey(nonce_key) == nonce_key = "random"

(* the first 16 bytes of keccak256: not injective, "k1twin" stands for a   *)
(* key whose truncated hash is that of "k1"                                *)
Keccak16(nonce_key) == IF nonce_key = "k1twin" THEN "k1" ELSE nonce_key

GroupIdFromNonceKey(nonce_key) == <<"keccak16", Keccak16(nonce_key)>>

AbsentRow ==
    [ status         |-> Absent,
      raw_tx         |-> FALSE,
      sender         |-> "nobody",
      nonce_key      |-> "nokey",
      nonce          |-> 0,
      group_id       |-> <<"keccak16", "nokey">>,
      valid_before   |-> NoTime,
      eligible_at    |-> NoTime,
      expires_at     |-> NoTime,
      next_action_at |-> NoTime,
      lease_owner    |-> NoOwner,
      lease_until    |-> NoTime,
      attempts       |-> 0,
      last_error     |-> NoError,
      receipt        |-> FALSE ]

Stored(id) == rows[id].status # Absent

-----------------------------------------------------------------------------
(* Sequences *)

Take(s, n) == SubSeq(s, 1, Min(n, Len(s)))

RECURSIVE OrderByScore(_, _)
(* the members of S by ascending score, ties by member *)
OrderByScore(S, score) ==
    IF S = {} THEN <<>>
    ELSE LET m == CHOOSE x \in S :
                    \A y \in S : \/ score[x] < score[y]
                                 \/ score[x] = score[y] /\ x <= y
         IN  <<m>> \o OrderByScore(S \ {m}, score)

SeqRange(s) == { s[i] : i \in 1..Len(s) }

-----------------------------------------------------------------------------
(* api.rs: preparing and validating a submission *)

(* prepare_new_tx_from_parsed without the test of expires_at *)
PrepareNewTxAcceptingExpired(parsed, t) ==
    LET valid_after  == parsed.valid_after
        valid_before == parsed.valid_before
        now_ts       == Timestamp(t)
        expires_at   == IF valid_before # NoTime
                        THEN DatetimeFromTs(valid_before) ELSE NoTime
        eligible_at  == IF valid_after # NoTime /\ valid_after > now_ts
                        THEN DatetimeFromTs(valid_after) ELSE t
    IN  IF valid_after # NoTime /\ valid_before # NoTime
           /\ valid_before <= valid_after
        THEN [ok |-> FALSE, error |-> "invalid validity window"]
        ELSE IF IsRandomNonceKey(parsed.nonce_key) /\ valid_after # NoTime
        THEN [ok |-> FALSE,
              error |-> "random nonce key requires valid_after to be unset"]
        ELSE [ok |-> TRUE,
              tx_hash        |-> parsed.tx_hash,
              sender         |-> parsed.sender,
              nonce_key      |-> parsed.nonce_key,
              nonce          |-> parsed.nonce,
              valid_before   |-> valid_before,
              eligible_at    |-> eligible_at,
              expires_at     |-> expires_at,
              status         |-> Queued,
              group_id       |-> GroupIdFromNonceKey(parsed.nonce_key),
              next_action_at |-> eligible_at]

(* prepare_new_tx_from_parsed that ignores valid_after for eligible_at *)
PrepareNewTxEligibleAtOnce(parsed, t) ==
    LET valid_after  == parsed.valid_after
        valid_before == parsed.valid_before
        now_ts       == Timestamp(t)
        expires_at   == IF valid_before # NoTime
                        THEN DatetimeFromTs(valid_before) ELSE NoTime
        eligible_at  == t
    IN  IF valid_after # NoTime /\ valid_before # NoTime
           /\ valid_before <= valid_after
        THEN [ok |-> FALSE, error |-> "invalid validity window"]
        ELSE IF expires_at # NoTime /\ expires_at <= t
        THEN [ok |-> FALSE, error |-> "transaction already expired"]
        ELSE IF IsRandomNonceKey(parsed.nonce_key) /\ valid_after # NoTime
        THEN [ok |-> FALSE,
              error |-> "random nonce key requires valid_after to be unset"]
        ELSE [ok |-> TRUE,
              tx_hash        |-> parsed.tx_hash,
              sender         |-> parsed.sender,
              nonce_key      |-> parsed.nonce_key,
              nonce          |-> parsed.nonce,
              valid_before   |-> valid_before,
              eligible_at    |-> eligible_at,
              expires_at     |-> expires_at,
              status         |-> Queued,
              group_id       |-> GroupIdFromNonceKey(parsed.nonce_key),
              next_action_at |-> eligible_at]

(* api.rs prepare_new_tx_from_parsed, at wall-clock time t *)
PrepareNewTxFromParsed(parsed, t) ==
    LET valid_after  == parsed.valid_after
        valid_before == parsed.valid_before
        now_ts       == Timestamp(t)
        expires_at   == IF valid_before # NoTime
                        THEN DatetimeFromTs(valid_before) ELSE NoTime
        eligible_at  == IF valid_after # NoTime /\ valid_after > now_ts
                        THEN DatetimeFromTs(valid_after) ELSE t
    IN  IF valid_after # NoTime /\ valid_before # NoTime
           /\ valid_before <= valid_after
        THEN [ok |-> FALSE, error |-> "invalid validity window"]
        ELSE IF expires_at # NoTime /\ expires_at <= t
        THEN [ok |-> FALSE, error |-> "transaction already expired"]
        ELSE IF IsRandomNonceKey(parsed.nonce_key) /\ valid_after # NoTime
        THEN [ok |-> FALSE,
              error |-> "random nonce key requires valid_after to be unset"]
        ELSE [ok |-> TRUE,
              tx_hash        |-> parsed.tx_hash,
              sender         |-> parsed.sender,
              nonce_key      |-> parsed.nonce_key,
              nonce          |-> parsed.nonce,
              valid_before   |-> valid_before,
              eligible_at    |-> eligible_at,
              expires_at     |-> expires_at,
              status         |-> Queued,
              group_id       |-> GroupIdFromNonceKey(parsed.nonce_key),
              next_action_at |-> eligible_at]

(* Vec::sort_by_key is stable: p goes after every pair whose nonce is <= *)
InsertByNonce(s, p) ==
    LET k == Cardinality({ i \in 1..Len(s) : s[i][1] <= p[1] })
    IN  SubSeq(s, 1, k) \o <<p>> \o SubSeq(s, k + 1, Len(s))

RECURSIVE SortByNonce(_)
SortByNonce(s) ==
    IF s = <<>> THEN <<>>
    ELSE InsertByNonce(SortByNonce(SubSeq(s, 1, Len(s) - 1)), s[Len(s)])

(* api.rs validate_nonce_valid_before_order; pairs are <<nonce, valid_before>> *)
ValidateNonceValidBeforeOrder(pairs) ==
    LET ordered == SortByNonce(SelectSeq(pairs, LAMBDA p : p[2] # NoTime))
    IN  \/ Len(ordered) <= 1
        \/ \A i \in 2..Len(ordered) : ~ (ordered[i][2] < ordered[i - 1][2])

(* db.rs get_group_nonce_windows: the stored rows of a group *)
GroupRows(rs, sender, group_id) ==
    { id \in TxIds : /\ rs[id].status # Absent
                     /\ rs[id].sender = sender
                     /\ rs[id].group_id = group_id }

GetGroupNonceWindows(rs, sender, group_id) ==
    LET ids == OrderByScore(GroupRows(rs, sender, group_id),
                            [id \in TxIds |-> id])
    IN  [ i \in 1..Len(ids) |->
            <<rs[ids[i]].nonce, rs[ids[i]].valid_before>> ]

(* insert_tx with ON CONFLICT ... DO UPDATE: the new values replace the row *)
InsertTxOverwriting(rs, new_tx) ==
    [rs EXCEPT ![new_tx.tx_hash] =
            [ status         |-> new_tx.status,
              raw_tx         |-> TRUE,
              sender         |-> new_tx.sender,
              nonce_key      |-> new_tx.nonce_key,
              nonce          |-> new_tx.nonce,
              group_id       |-> new_tx.group_id,
              valid_before   |-> new_tx.valid_before,
              eligible_at    |-> new_tx.eligible_at,
              expires_at     |-> new_tx.expires_at,
              next_action_at |-> new_tx.next_action_at,
              lease_owner    |-> NoOwner,
              lease_until    |-> NoTime,
              attempts       |-> 0,
              last_error     |-> NoError,
              receipt        |-> FALSE ]]

(* db.rs insert_tx: INSERT ... ON CONFLICT (chain_id, tx_hash) DO NOTHING *)
InsertTx(rs, new_tx) ==
    IF rs[new_tx.tx_hash].status # Absent THEN rs
    ELSE [rs EXCEPT ![new_tx.tx_hash] =
            [ status         |-> new_tx.status,
              raw_tx         |-> TRUE,
              sender         |-> new_tx.sender,
              nonce_key      |-> new_tx.nonce_key,
              nonce          |-> new_tx.nonce,
              group_id       |-> new_tx.group_id,
              valid_before   |-> new_tx.valid_before,
              eligible_at    |-> new_tx.eligible_at,
              expires_at     |-> new_tx.expires_at,
              next_action_at |-> new_tx.next_action_at,
              lease_owner    |-> NoOwner,
              lease_until    |-> NoTime,
              attempts       |-> 0,
              last_error     |-> NoError,
              receipt        |-> FALSE ]]

(* rows_affected() of the INSERT *)
InsertRowsAffected(rs, new_tx) ==
    IF rs[new_tx.tx_hash].status # Absent THEN 0 ELSE 1

(* what insert_tx returns: the row selected after the INSERT, and the flag *)
InsertTxReturn(rs, new_tx) ==
    [ record        |-> InsertTx(rs, new_tx)[new_tx.tx_hash],
      already_known |-> InsertRowsAffected(rs, new_tx) = 0 ]

RECURSIVE InsertAll(_, _)
InsertAll(rs, prepared) ==
    IF prepared = <<>> THEN rs
    ELSE InsertAll(InsertTx(rs, Head(prepared)), Tail(prepared))

(* store_transactions that checks a batch against itself only *)
BatchValidIgnoringStored(rs, prepared) ==
    /\ \A i, j \in 1..Len(prepared) :
          (prepared[i].sender = prepared[j].sender
             /\ prepared[i].group_id = prepared[j].group_id)
          => prepared[i].nonce_key = prepared[j].nonce_key
    /\ \A i \in 1..Len(prepared) :
          LET mine == SelectSeq(prepared,
                        LAMBDA p : /\ p.sender = prepared[i].sender
                                   /\ p.group_id = prepared[i].group_id)
          IN  ValidateNonceValidBeforeOrder(
                 [ k \in 1..Len(mine) |->
                     <<mine[k].nonce, mine[k].valid_before>> ])

(* api.rs store_transactions, lines 701-755: the nonce_key of each group   *)
(* of the batch is one, equals the stored one, and the (nonce,             *)
(* valid_before) pairs of batch and stored rows are ordered                *)
BatchValid(rs, prepared) ==
    /\ \A i, j \in 1..Len(prepared) :
          (prepared[i].sender = prepared[j].sender
             /\ prepared[i].group_id = prepared[j].group_id)
          => prepared[i].nonce_key = prepared[j].nonce_key
    /\ \A i \in 1..Len(prepared) :
          \A id \in GroupRows(rs, prepared[i].sender, prepared[i].group_id) :
             rs[id].nonce_key = prepared[i].nonce_key
    /\ \A i \in 1..Len(prepared) :
          LET mine == SelectSeq(prepared,
                        LAMBDA p : /\ p.sender = prepared[i].sender
                                   /\ p.group_id = prepared[i].group_id)
              windows == [ k \in 1..Len(mine) |->
                             <<mine[k].nonce, mine[k].valid_before>> ]
          IN  ValidateNonceValidBeforeOrder(
                 windows \o GetGroupNonceWindows(rs, prepared[i].sender,
                                                 prepared[i].group_id))

-----------------------------------------------------------------------------
(* db.rs: the conditional updates of the txs table *)

(* db.rs cancel_group: UPDATE ... WHERE sender = $2 AND group_id = $3 *)
CancelGroupDb(rs, sender, group_id) ==
    [ id \in TxIds |->
        IF id \in GroupRows(rs, sender, group_id)
        THEN [rs[id] EXCEPT !.status = CanceledLocally,
                            !.raw_tx = FALSE,
                            !.next_action_at = NoTime,
                            !.lease_owner = NoOwner,
                            !.lease_until = NoTime]
        ELSE rs[id] ]

(* LeaseEligible without the test of the running lease *)
LeaseEligibleIgnoringLease(r, t) ==
    /\ r.status \in {Queued, RetryScheduled, Broadcasting}
    /\ r.next_action_at # NoTime /\ r.next_action_at <= t

(* LeaseEligible without the test that the row is due *)
LeaseEligibleIgnoringDueTime(r, t) ==
    /\ r.status \in {Queued, RetryScheduled, Broadcasting}
    /\ (r.lease_until = NoTime \/ r.lease_until < t)

(* LeaseEligible that never takes a Broadcasting row *)
LeaseEligibleUnlessBroadcasting(r, t) ==
    /\ r.status \in {Queued, RetryScheduled}
    /\ r.next_action_at # NoTime /\ r.next_action_at <= t
    /\ (r.lease_until = NoTime \/ r.lease_until < t)

(* the WHERE clause shared by lease_due_txs and lease_tx_by_hash; a        *)
(* comparison with NULL is not true                                        *)
LeaseEligible(r, t) ==
    /\ r.status \in {Queued, RetryScheduled, Broadcasting}
    /\ r.next_action_at # NoTime /\ r.next_action_at <= t
    /\ (r.lease_until = NoTime \/ r.lease_until < t)

(* the SET clause shared by lease_due_txs and lease_tx_by_hash *)
Leased(r, lease_owner, lease_until) ==
    [r EXCEPT !.status = Broadcasting,
              !.lease_owner = lease_owner,
              !.lease_until = lease_until]

(* LeaseTxByHash without the test that the row is due *)
LeaseTxByHashBeforeDue(rs, tx_hash, t, lease_owner, lease_until) ==
    IF LeaseEligibleIgnoringDueTime(rs[tx_hash], t)
    THEN [rs EXCEPT ![tx_hash] = Leased(rs[tx_hash], lease_owner, lease_until)]
    ELSE rs

(* db.rs lease_tx_by_hash: the table after the statement; the row is       *)
(* returned iff it was eligible                                            *)
LeaseTxByHash(rs, tx_hash, t, lease_owner, lease_until) ==
    IF LeaseEligible(rs[tx_hash], t)
    THEN [rs EXCEPT ![tx_hash] = Leased(rs[tx_hash], lease_owner, lease_until)]
    ELSE rs

(* a batch lease without its LIMIT *)
LeaseDueChoicesUnlimited(rs, t, limit) ==
    { { id \in TxIds : LeaseEligible(rs[id], t) } }

(* a batch lease that returns no row *)
LeaseDueChoicesNone(rs, t, limit) == {{}}

(* db.rs lease_due_txs: the sets of rows the statement may return: the     *)
(* first `limit` eligible rows by next_action_at, any choice among ties    *)
LeaseDueChoices(rs, t, limit) ==
    LET due == { id \in TxIds : LeaseEligible(rs[id], t) }
        n   == Min(limit, Cardinality(due))
    IN  { S \in SUBSET due :
            /\ Cardinality(S) = n
            /\ \A x \in S, y \in due \ S :
                  rs[x].next_action_at <= rs[y].next_action_at }

LeaseDueTxs(rs, S, lease_owner, lease_until) ==
    [ id \in TxIds |->
        IF id \in S THEN Leased(rs[id], lease_owner, lease_until) ELSE rs[id] ]

(* RescheduleTx that leaves next_action_at null *)
RescheduleTxNullNext(rs, id, status, next_action_at, attempts, last_error) ==
    [rs EXCEPT ![id] = [@ EXCEPT !.status = status,
                                 !.next_action_at = NoTime,
                                 !.attempts = attempts,
                                 !.last_error = last_error,
                                 !.lease_owner = NoOwner,
                                 !.lease_until = NoTime]]

(* db.rs reschedule_tx: UPDATE ... WHERE id = $5 *)
RescheduleTx(rs, id, status, next_action_at, attempts, last_error) ==
    [rs EXCEPT ![id] = [@ EXCEPT !.status = status,
                                 !.next_action_at = next_action_at,
                                 !.attempts = attempts,
                                 !.last_error = last_error,
                                 !.lease_owner = NoOwner,
                                 !.lease_until = NoTime]]

(* MarkTerminal that leaves the lease columns alone *)
MarkTerminalKeepingLease(rs, id, status, last_error) ==
    [rs EXCEPT ![id] = [@ EXCEPT !.status = status,
                                 !.last_error = last_error,
                                 !.next_action_at = NoTime]]

(* db.rs mark_terminal: UPDATE ... WHERE id = $3 *)
MarkTerminal(rs, id, status, last_error) ==
    [rs EXCEPT ![id] = [@ EXCEPT !.status = status,
                                 !.last_error = last_error,
                                 !.next_action_at = NoTime,
                                 !.lease_owner = NoOwner,
                                 !.lease_until = NoTime]]

MarkExpired(rs, id) == MarkTerminal(rs, id, Expired, NoError)

MarkInvalid(rs, id, reason) == MarkTerminal(rs, id, Invalid, reason)

MarkStaleByNonce(rs, id) == MarkTerminal(rs, id, StaleByNonce, NoError)

(* db.rs mark_executed: UPDATE ... WHERE id = $3 *)
MarkExecuted(rs, id) ==
    [rs EXCEPT ![id] = [@ EXCEPT !.status = Executed,
                                 !.receipt = TRUE,
                                 !.next_action_at = NoTime,
                                 !.lease_owner = NoOwner,
                                 !.lease_until = NoTime]]

(* RecoverStuckBroadcasts without the test next_action_at IS NULL *)
RecoverEveryBroadcast(rs, t) ==
    [ id \in TxIds |->
        IF rs[id].status = Broadcasting
        THEN [rs[id] EXCEPT !.status = RetryScheduled,
                            !.next_action_at = t,
                            !.lease_owner = NoOwner,
                            !.lease_until = NoTime]
        ELSE rs[id] ]

(* db.rs recover_stuck_broadcasts, with NOW() = t *)
RecoverStuckBroadcasts(rs, t) ==
    [ id \in TxIds |->
        IF rs[id].status = Broadcasting /\ rs[id].next_action_at = NoTime
        THEN [rs[id] EXCEPT !.status = RetryScheduled,
                            !.next_action_at = t,
                            !.lease_owner = NoOwner,
                            !.lease_until = NoTime]
        ELSE rs[id] ]

(* db.rs list_active_txs: ORDER BY next_action_at ASC NULLS LAST, created_at *)
ListActiveTxs(rs) ==
    OrderByScore({ id \in TxIds : rs[id].status \in ActiveStatuses },
                 [ id \in TxIds |->
                     IF rs[id].next_action_at = NoTime
                     THEN MaxTime + MaxTime + MaxShift
                     ELSE rs[id].next_action_at ])

-----------------------------------------------------------------------------
(* scheduler.rs: backoff and the ready index *)

Pow2(n) == 2 ^ n

(* the largest value of the unsigned word of the delay arithmetic, scaled  *)
(* down from 64 bits so that the products stay representable               *)
WordMax == 65535

(* u64::saturating_mul *)
SaturatingMul(a, b) == Min(a * b, WordMax)

(* Ord::clamp asserts min <= max before it compares *)
ClampPanics(min_ms, max_ms) == min_ms > max_ms

(* scheduler.rs retry_backoff_ms *)
RetryBackoffMs(attempts, min_ms, max_ms) ==
    LET shift == Min(Max(attempts - 1, 0), MaxShift)
        delay == SaturatingMul(min_ms, Pow2(shift))
    IN  Min(Max(delay, min_ms), max_ms)

(* schedule_next_attempt without the comparison with expires_at *)
ScheduleNextAttemptPastExpiry(t, expires_at, attempts) ==
    t + RetryBackoffMs(attempts, RetryMinMs, RetryMaxMs) \div MsPerTick

(* scheduler.rs schedule_next_attempt *)
ScheduleNextAttempt(t, expires_at, attempts) ==
    LET delay_ms == RetryBackoffMs(attempts, RetryMinMs, RetryMaxMs)
        next_action_at == t + delay_ms \div MsPerTick
    IN  IF expires_at # NoTime /\ next_action_at > expires_at
        THEN expires_at ELSE next_action_at

(* zrangebyscore_limit(zone, 0, max_score, 0, limit) *)
ZRangeByScoreLimit(zone, max_score, limit) ==
    Take(OrderByScore({ id \in TxIds : zone[id] # NoTime
                                       /\ zone[id] <= max_score }, zone),
         limit)

(* FetchDueFromRedis that reads the retry zone first *)
FetchDueFromRedisRetryFirst(t, limit) ==
    LET max_score == Timestamp(t)
        out       == ZRangeByScoreLimit(retry, max_score, limit)
    IN  IF Len(out) < limit
        THEN out \o ZRangeByScoreLimit(ready, max_score, limit - Len(out))
        ELSE out

(* scheduler.rs fetch_due_from_redis *)
FetchDueFromRedis(t, limit) ==
    LET max_score == Timestamp(t)
        out       == ZRangeByScoreLimit(ready, max_score, limit)
    IN  IF Len(out) < limit
        THEN out \o ZRangeByScoreLimit(retry, max_score, limit - Len(out))
        ELSE out

ZRem(zone, S) == [ id \in TxIds |-> IF id \in S THEN NoTime ELSE zone[id] ]

-----------------------------------------------------------------------------
(* History variables *)

(* the step spawned a task for the row, i.e. a lease statement returned it *)
Acquired(id) ==
    \E t \in tasks' : t.id = id /\ \A u \in tasks : u.tid # t.tid

(* evaluated once rows' and tasks' are fixed by the action *)
Track ==
    /\ pool' = pool
    /\ call' = call
    /\ lastUntil' = [ id \in TxIds |->
          IF Acquired(id) THEN rows'[id].lease_until
          ELSE IF rows[id].lease_until # NoTime
                  /\ rows'[id].lease_until = NoTime
          THEN NoTime
          ELSE lastUntil[id] ]

-----------------------------------------------------------------------------
(* api.rs: submit and cancel *)

Batches == { <<id>> : id \in pool }
             \cup { OrderByScore(pool, [ id \in TxIds |-> id ]) }

(* scheduler::schedule_records: every non-terminal record of the batch     *)
(* enters the ready zone at score eligible_at (unix seconds)               *)
ScheduleRecords(zone, rs, batch) ==
    [ id \in TxIds |->
        IF id \in SeqRange(batch) /\ rs[id].status \in ActiveStatuses
        THEN Timestamp(rs[id].eligible_at) ELSE zone[id] ]

(* api.rs submit_transactions / store_transactions for an accepted batch;  *)
(* a batch with a client-invalid member is rejected before any insert      *)
Submit(batch) ==
    LET prepared == [ i \in 1..Len(batch) |->
                        PrepareNewTxFromParsed(ParsedTx(batch[i]), now) ]
    IN  /\ \A i \in 1..Len(batch) : prepared[i].ok
        /\ BatchValid(rows, prepared)
        /\ rows' = InsertAll(rows, prepared)
        /\ ready' = ScheduleRecords(ready, rows', batch)
        /\ UNCHANGED <<now, retry, tasks, nextTid, watcher,
                       sent, cancelledEarly>>
        /\ Track

(* every stored row of the group is Queued and its eligible_at is ahead *)
GroupUnripe(sender, group_id) ==
    \A id \in GroupRows(rows, sender, group_id) :
        rows[id].status = Queued /\ now < rows[id].eligible_at

(* api.rs cancel_group with a verified signature, for a group with rows *)
CancelGroup(sender, group_id) ==
    LET records == GroupRows(rows, sender, group_id)
    IN  /\ records # {}
        /\ rows' = CancelGroupDb(rows, sender, group_id)
        /\ ready' = ZRem(ready, records)
        /\ retry' = ZRem(retry, records)
        /\ cancelledEarly' = [ id \in TxIds |->
              cancelledEarly[id]
                \/ (id \in records /\ GroupUnripe(sender, group_id)) ]
        /\ UNCHANGED <<now, tasks, nextTid, watcher, sent>>
        /\ Track

-----------------------------------------------------------------------------
(* scheduler.rs: one tick of run_chain_scheduler *)

RECURSIVE LeaseHashes(_, _, _, _, _, _, _)
(* scheduler.rs lines 47-71: lease each due hash in turn; failed holds the *)
(* positions whose statement fails with a store error                      *)
LeaseHashes(rs, due, i, failed, t, lease_owner, lease_until) ==
    IF i > Len(due) THEN [rows |-> rs, leased |-> <<>>]
    ELSE IF i \notin failed /\ LeaseEligible(rs[due[i]], t)
    THEN LET rest == LeaseHashes(
                        LeaseTxByHash(rs, due[i], t, lease_owner, lease_until),
                        due, i + 1, failed, t, lease_owner, lease_until)
         IN  [rows |-> rest.rows, leased |-> <<due[i]>> \o rest.leased]
    ELSE LeaseHashes(rs, due, i + 1, failed, t, lease_owner, lease_until)

(* the task spawned for a leased record, as returned by the statement *)
NewTask(tid, s, r, id) ==
    [ tid        |-> tid,
      owner      |-> s,
      id         |-> id,
      pc         |-> "start",
      now        |-> NoTime,
      attempts   |-> r.attempts,
      raw_tx     |-> r.raw_tx,
      expires_at |-> r.expires_at ]

InFlight(s) == { t \in tasks : t.owner = s }

(* redisOutcomes and storeOutcomes say whether the calls of this tick may *)
(* succeed (TRUE) and may fail (FALSE); cap bounds the serial numbers at   *)
(* which a tick may still lease; each value of the tick is bound once, by  *)
(* a quantifier over a singleton                                           *)
SchedulerTick(s, cap, redisOutcomes, storeOutcomes) ==
    \E available \in {MaxConcurrency - Cardinality(InFlight(s))},
       lease_until \in {now + LeaseTtlSeconds * TicksPerSecond} :
        /\ available > 0
        /\ nextTid <= cap
        /\ \E redisOk \in redisOutcomes :
           \E due \in {IF redisOk THEN FetchDueFromRedis(now, available)
                        ELSE <<>>} :
               \E failed \in { F \in SUBSET (1..Len(due)) :
                                   /\ F # {} => FALSE \in storeOutcomes
                                   /\ F # 1..Len(due) => TRUE \in storeOutcomes },
                  batchOk \in storeOutcomes :
               \E byHash \in {LeaseHashes(rows, due, 1, failed, now, s,
                                         lease_until)} :
               \E remaining \in {available - Len(byHash.leased)} :
                   \E S \in (IF remaining > 0 /\ batchOk
                             THEN LeaseDueChoices(byHash.rows, now, remaining)
                             ELSE {{}}) :
                   \E leased \in {byHash.leased
                                 \o OrderByScore(S, [id \in TxIds |-> id])} :
                       /\ rows' = LeaseDueTxs(byHash.rows, S, s, lease_until)
                       /\ tasks' = tasks \cup
                            { NewTask(nextTid + i - 1, s, rows'[leased[i]],
                                      leased[i]) : i \in 1..Len(leased) }
                       /\ nextTid' = nextTid + Len(leased)
                       /\ ready' = ZRem(ready, SeqRange(due))
                       /\ retry' = ZRem(retry, SeqRange(due))
        /\ UNCHANGED <<now, watcher, sent, cancelledEarly>>
        /\ Track

-----------------------------------------------------------------------------
(* scheduler.rs handle_broadcast, split at the broadcast await *)

(* broadcaster.rs BroadcastOutcome as handle_broadcast sees it *)
Outcomes ==
    { [kind |-> "Accepted", error |-> NoError],
      [kind |-> "Retry",    error |-> "broadcast timeout"],
      [kind |-> "Invalid",  error |-> "invalid signature"] }

(* TaskStart without the expiry check of lines 118-123 *)
TaskStartIgnoringExpiry(t) ==
    /\ t \in tasks /\ t.pc = "start"
    /\ IF ~ t.raw_tx
       THEN /\ rows' = MarkInvalid(rows, t.id, "missing raw_tx")
            /\ tasks' = tasks \ {t}
            /\ UNCHANGED sent
       ELSE /\ tasks' = (tasks \ {t})
                          \cup {[t EXCEPT !.pc = "sent", !.now = now]}
            /\ sent' = [sent EXCEPT ![t.id] =
                          IF @ = "early" \/ now < rows[t.id].eligible_at
                          THEN "early" ELSE "due"]
            /\ UNCHANGED rows
    /\ UNCHANGED <<now, ready, retry, nextTid, watcher, cancelledEarly>>
    /\ Track

(* lines 117-145: expiry and raw_tx checks, then the bytes go out *)
TaskStart(t) ==
    /\ t \in tasks /\ t.pc = "start"
    /\ IF t.expires_at # NoTime /\ t.expires_at <= now
       THEN /\ rows' = MarkExpired(rows, t.id)
            /\ tasks' = tasks \ {t}
            /\ UNCHANGED sent
       ELSE IF ~ t.raw_tx
       THEN /\ rows' = MarkInvalid(rows, t.id, "missing raw_tx")
            /\ tasks' = tasks \ {t}
            /\ UNCHANGED sent
       ELSE /\ tasks' = (tasks \ {t})
                          \cup {[t EXCEPT !.pc = "sent", !.now = now]}
            /\ sent' = [sent EXCEPT ![t.id] =
                          IF @ = "early" \/ now < rows[t.id].eligible_at
                          THEN "early" ELSE "due"]
            /\ UNCHANGED rows
    /\ UNCHANGED <<now, ready, retry, nextTid, watcher, cancelledEarly>>
    /\ Track

(* scheduler.rs update_retry_schedule *)
UpdateRetrySchedule(zone, id, next_action_at, isRetryZone) ==
    [zone EXCEPT ![id] = IF isRetryZone THEN Timestamp(next_action_at)
                         ELSE NoTime]

(* lines 147-181: the write after the attempt; o is the broadcaster's     *)
(* outcome                                                                 *)
TaskFinish(t, o, redisOutcomes) ==
    /\ t \in tasks /\ t.pc = "sent"
    /\ LET attempts == t.attempts + 1
           next_action_at == ScheduleNextAttempt(t.now, t.expires_at, attempts)
       IN  IF o.kind \in {"Accepted", "Retry"}
           THEN /\ rows' = RescheduleTx(rows, t.id, RetryScheduled,
                                        next_action_at, attempts,
                                        o.error)
                /\ \E redisOk \in redisOutcomes :
                     IF redisOk
                     THEN /\ ready' = UpdateRetrySchedule(ready, t.id,
                                         next_action_at, FALSE)
                          /\ retry' = UpdateRetrySchedule(retry, t.id,
                                         next_action_at, TRUE)
                     ELSE UNCHANGED <<ready, retry>>
           ELSE /\ rows' = MarkInvalid(rows, t.id, o.error)
                /\ UNCHANGED <<ready, retry>>
    /\ tasks' = tasks \ {t}
    /\ UNCHANGED <<now, nextTid, watcher, sent, cancelledEarly>>
    /\ Track

-----------------------------------------------------------------------------
(* Process lifecycle: the process of scheduler s dies, its tasks vanish    *)
(* without a write, and its successor starts (main.rs lines 63-65)         *)

(* scheduler::recover_after_restart: the recovery pass of section 4.7 *)
RecoverAfterRestart(rs, t) == RecoverStuckBroadcasts(rs, t)

Restart(s) ==
    /\ InFlight(s) # {}
    /\ tasks' = tasks \ InFlight(s)
    /\ rows' = RecoverAfterRestart(rows, now)
    /\ UNCHANGED <<now, ready, retry, nextTid, watcher, sent, cancelledEarly>>
    /\ Track

-----------------------------------------------------------------------------
(* watcher.rs process_tick_with_chain, split at its awaits *)

MaxNonce == 2
ReceiptAnswers == BOOLEAN
NonceAnswers == 0..MaxNonce

IdleWatcher == [pc |-> "idle", now |-> NoTime, todo |-> <<>>, pending |-> {}]

(* lines 92-98: the snapshot of active rows *)
WatcherBegin ==
    /\ watcher.pc = "idle"
    /\ ListActiveTxs(rows) # <<>>
    /\ watcher' = [pc |-> "receipts", now |-> now,
                   todo |-> ListActiveTxs(rows), pending |-> {}]
    /\ UNCHANGED <<now, rows, ready, retry, tasks, nextTid, sent,
                   cancelledEarly>>
    /\ Track

(* the chain holds no receipt of a transaction whose valid_after is still *)
(* ahead                                                                  *)
ChainMayHoldReceipt(id, t) == rows[id].eligible_at <= t

(* lines 100-119: one record of the snapshot; receipt is the chain's answer *)
WatcherVisit(receipt) ==
    /\ watcher.pc = "receipts"
    /\ receipt => ChainMayHoldReceipt(Head(watcher.todo), now)
    /\ LET id == Head(watcher.todo)
           r  == rows[id]
           expired == r.expires_at # NoTime /\ r.expires_at <= watcher.now
           pending == IF expired \/ receipt THEN watcher.pending
                      ELSE watcher.pending \cup {id}
           todo == Tail(watcher.todo)
       IN  /\ rows' = IF expired THEN MarkExpired(rows, id)
                      ELSE IF receipt THEN MarkExecuted(rows, id)
                      ELSE rows
           /\ watcher' = IF todo = <<>> /\ pending = {} THEN IdleWatcher
                         ELSE IF todo = <<>>
                         THEN [IdleWatcher EXCEPT !.pc = "nonces",
                                                  !.pending = pending]
                         ELSE [watcher EXCEPT !.todo = todo,
                                              !.pending = pending]
    /\ UNCHANGED <<now, ready, retry, tasks, nextTid, sent,
                   cancelledEarly>>
    /\ Track

NonceGroups(S) == { <<rows[id].sender, rows[id].nonce_key>> : id \in S }

(* MarkStaleRows that also marks a row whose nonce equals the observed one *)
MarkStaleRowsAtNonce(rs, pending, current_nonce) ==
    [ id \in TxIds |->
        IF /\ id \in pending
           /\ current_nonce[<<rs[id].sender, rs[id].nonce_key>>]
                >= rs[id].nonce
        THEN MarkStaleByNonce(rs, id)[id] ELSE rs[id] ]

(* lines 129-140: the rows marked for the observed nonces *)
MarkStaleRows(rs, pending, current_nonce) ==
    [ id \in TxIds |->
        IF /\ id \in pending
           /\ current_nonce[<<rs[id].sender, rs[id].nonce_key>>]
                > rs[id].nonce
        THEN MarkStaleByNonce(rs, id)[id] ELSE rs[id] ]

(* lines 121-142: the nonce pass; current_nonce[g] is the chain's answer   *)
(* for group g                                                             *)
WatcherNonces(current_nonce) ==
    /\ watcher.pc = "nonces"
    /\ rows' = MarkStaleRows(rows, watcher.pending, current_nonce)
    /\ watcher' = IdleWatcher
    /\ UNCHANGED <<now, ready, retry, tasks, nextTid, sent,
                   cancelledEarly>>
    /\ Track

(* a failed query or statement ends the tick (the ? operator) *)
WatcherFail ==
    /\ watcher.pc # "idle"
    /\ watcher' = IdleWatcher
    /\ UNCHANGED <<now, rows, ready, retry, tasks, nextTid, sent,
                   cancelledEarly>>
    /\ Track

-----------------------------------------------------------------------------
(* Environment *)

TimeAdvance ==
    /\ now < MaxTime
    /\ now' = now + 1
    /\ UNCHANGED <<rows, ready, retry, tasks, nextTid, watcher,
                   sent, cancelledEarly>>
    /\ Track

-----------------------------------------------------------------------------

InitWith(pools) ==
    /\ pool \in pools
    /\ now = 0
    /\ rows = [ id \in TxIds |-> AbsentRow ]
    /\ ready = [ id \in TxIds |-> NoTime ]
    /\ retry = [ id \in TxIds |-> NoTime ]
    /\ tasks = {}
    /\ nextTid = 1
    /\ watcher = IdleWatcher
    /\ sent = [ id \in TxIds |-> "never" ]
    /\ lastUntil = [ id \in TxIds |-> NoTime ]
    /\ cancelledEarly = [ id \in TxIds |-> FALSE ]
    /\ call = NoCall

Next ==
    \/ \E batch \in Batches : Submit(batch)
    \/ CancelGroup("alice", GroupIdFromNonceKey("k1"))
    \/ \E s \in Schedulers : SchedulerTick(s, MaxTasks, {TRUE}, {TRUE})
    \/ \E t \in tasks : TaskStart(t)
    \/ \E t \in tasks, o \in Outcomes : TaskFinish(t, o, {TRUE})
    \/ \E s \in Schedulers : Restart(s)
    \/ WatcherBegin
    \/ \E receipt \in ReceiptAnswers : WatcherVisit(receipt)
    \/ \E current_nonce \in [NonceGroups(watcher.pending) -> NonceAnswers] :
          WatcherNonces(current_nonce)
    \/ WatcherFail
    \/ TimeAdvance

(* every run follows one signed transaction *)
Init == InitWith({ {id} : id \in TxIds })

Spec == Init /\ [][Next]_vars

(* a run whose clients hold the whole group *)
InitGroup == InitWith({ TxIds })

NextGroup ==
    \/ \E batch \in Batches : Submit(batch)
    \/ CancelGroup("alice", GroupIdFromNonceKey("k1"))
    \/ SchedulerTick("s1", MaxGroupTasks, {TRUE}, {TRUE})
    \/ \E t \in tasks : TaskStart(t)
    \/ \E t \in tasks, o \in Outcomes : TaskFinish(t, o, {TRUE})
    \/ WatcherBegin
    \/ \E receipt \in ReceiptAnswers : WatcherVisit(receipt)
    \/ \E current_nonce \in [NonceGroups(watcher.pending) -> NonceAnswers] :
          WatcherNonces(current_nonce)
    \/ WatcherFail
    \/ TimeAdvance

SpecGroup == InitGroup /\ [][NextGroup]_vars

-----------------------------------------------------------------------------
(* Properties *)

FinishedTasks == { t \in tasks : t.pc = "sent" /\ t \notin tasks' }

(* C1: a row whose status is terminal never afterwards has a different     *)
(* status                                                                  *)
TerminalAbsorbing ==
    [][\A id \in TxIds :
          rows[id].status \in TerminalStatuses
          => rows'[id].status = rows[id].status]_vars

(* C2: the write a broadcast task makes after its attempt changes the row  *)
(* only if the row is still Broadcasting with the task's lease_owner       *)
TaskWriteFenced ==
    [][\A t \in FinishedTasks :
          ~ (rows[t.id].status = Broadcasting
               /\ rows[t.id].lease_owner = t.owner)
          => rows'[t.id] = rows[t.id]]_vars

(* C3: at no instant do two broadcast tasks hold the same row *)
OneTaskPerRow ==
    \A t1, t2 \in tasks : t1.id = t2.id => t1 = t2

(* C4: when an acquisition returns a row that an earlier acquisition       *)
(* returned, either a write cleared the row's lease in between or the      *)
(* acquisition's now is strictly later than the lease_until set by the     *)
(* earlier one                                                             *)
LeaseExclusion ==
    [][\A id \in TxIds :
          (Acquired(id) /\ lastUntil[id] # NoTime) => now > lastUntil[id]]_vars

(* C4 witness: a second task acquired the row of a task still in flight,   *)
(* over the lease the first one was granted                                *)
ReleasedAfterExpiry ==
    \E t1, t2 \in tasks :
        /\ t1.id = t2.id /\ t1.tid < t2.tid
        /\ t1.pc = "sent" /\ t2.pc = "start"
        /\ rows[t1.id].status = Broadcasting
        /\ lastUntil[t1.id] = rows[t1.id].lease_until

(* C5: once the watcher has marked a row Executed, the later write of a    *)
(* task with outcome Accepted or Retry leaves the row as it is             *)
ExecutedSurvivesTaskWrite ==
    [][\A t \in FinishedTasks :
          (rows[t.id].status = Executed /\ rows'[t.id].status # Invalid)
          => rows'[t.id] = rows[t.id]]_vars

(* C6: the attempts counter of a row never decreases *)
AttemptsMonotone ==
    [][\A id \in TxIds : rows'[id].attempts >= rows[id].attempts]_vars

(* C7: a terminal row has next_action_at and lease_owner NULL, a           *)
(* Broadcasting row has lease_owner and lease_until set                    *)
FieldConstraints ==
    \A id \in TxIds :
        /\ rows[id].status \in TerminalStatuses
           => rows[id].next_action_at = NoTime /\ rows[id].lease_owner = NoOwner
        /\ rows[id].status = Broadcasting
           => rows[id].lease_owner # NoOwner /\ rows[id].lease_until # NoTime

(* C7 witness: a task's terminal write on the row it had leased *)
TerminalAfterLease ==
    \E id \in TxIds :
        /\ rows[id].status = Invalid
        /\ rows[id].last_error = "invalid signature"
        /\ sent[id] = "due"

(* C8: no row's bytes are sent before its eligible_at: a lease statement   *)
(* returns a row only when its next_action_at is set and <= now, and a     *)
(* next_action_at is never earlier than the row's eligible_at              *)
NotSentBeforeEligible ==
    [][/\ \A id \in TxIds :
             Acquired(id) => /\ rows[id].next_action_at # NoTime
                             /\ rows[id].next_action_at <= now
       /\ \A id \in TxIds :
             /\ sent'[id] # "early"
             /\ rows'[id].next_action_at # NoTime
                => rows'[id].next_action_at >= rows'[id].eligible_at]_vars

(* C8 witness: a row stored ahead of its valid_after has been broadcast *)
DelayedRowSent ==
    \E id \in TxIds :
        /\ sent[id] = "due"
        /\ ParsedTx(id).valid_after # NoTime
        /\ rows[id].eligible_at = DatetimeFromTs(ParsedTx(id).valid_after)
        /\ rows[id].attempts > 0

(* C9: the rows of a group canceled while all of them were Queued and not  *)
(* yet eligible are never sent, and are and stay CanceledLocally with      *)
(* raw_tx, next_action_at and the lease NULL                               *)
CancelledEarlyStays ==
    \A id \in TxIds :
        cancelledEarly[id]
        => /\ sent[id] = "never"
           /\ rows[id].status = CanceledLocally
           /\ ~ rows[id].raw_tx
           /\ rows[id].next_action_at = NoTime
           /\ rows[id].lease_owner = NoOwner
           /\ rows[id].lease_until = NoTime

(* C10: a row becomes CanceledLocally only from a non-terminal status *)
CancelOnlyActive ==
    [][\A id \in TxIds :
          (rows'[id].status = CanceledLocally
             /\ rows[id].status # CanceledLocally)
          => rows[id].status \in ActiveStatuses]_vars

-----------------------------------------------------------------------------
(* api.rs cancel_group with its authorization header *)

Addresses == {"alice", "mallory"}
GroupIds == { GroupIdFromNonceKey(k) : k \in {"k1", "k2"} }

(* the Authorization header of a request: absent, not of the form          *)
(* "Signature <130 hex digits>", or a signature made by signer over the    *)
(* keccak256 of group_id `over`                                            *)
MalformedHeaders ==
    { [kind |-> k] : k \in {"missing", "not_text", "empty", "scheme_only",
                             "other_scheme", "three_parts", "bad_hex",
                             "bad_signature", "unrecoverable"} }
SignatureHeaders ==
    { [kind |-> "signature", signer |-> a, over |-> g] :
         a \in Addresses, g \in GroupIds }
Headers == MalformedHeaders \cup SignatureHeaders

(* Signature::recover_address_from_prehash: the signer when the prehash is *)
(* the one signed, an address nobody holds otherwise                       *)
RecoverAddressFromPrehash(signature, prehash) ==
    IF signature.over = prehash THEN signature.signer ELSE "stranger"

(* VerifyGroupSignature that accepts whatever address the signature        *)
(* recovers to                                                             *)
VerifyGroupSignatureAnySigner(header, sender, group_id) ==
    IF header.kind = "missing" THEN "missing authorization header"
    ELSE IF header.kind \in {"not_text", "empty", "scheme_only",
                             "other_scheme", "three_parts"}
    THEN "invalid authorization header"
    ELSE IF header.kind \in {"bad_hex", "bad_signature", "unrecoverable"}
    THEN "invalid signature"
    ELSE "ok"

(* api.rs verify_group_signature: "ok" or the text of the 401 *)
VerifyGroupSignature(header, sender, group_id) ==
    IF header.kind = "missing" THEN "missing authorization header"
    ELSE IF header.kind \in {"not_text", "empty", "scheme_only",
                             "other_scheme", "three_parts"}
    THEN "invalid authorization header"
    ELSE IF header.kind \in {"bad_hex", "bad_signature", "unrecoverable"}
    THEN "invalid signature"
    ELSE IF RecoverAddressFromPrehash(header, group_id) # sender
    THEN "signature does not match sender"
    ELSE "ok"

(* api.rs cancel_group, lines 649-689, for a well-formed path *)
CancelRequest(header, sender, group_id) ==
    LET verdict == VerifyGroupSignature(header, sender, group_id)
        records == GroupRows(rows, sender, group_id)
        result  == IF verdict # "ok" THEN verdict
                   ELSE IF records = {} THEN "group not found"
                   ELSE "canceled"
    IN  /\ call' = [op |-> "cancel_group", header |-> header,
                    sender |-> sender, group_id |-> group_id,
                    result |-> result]
        /\ IF verdict = "ok"
           THEN /\ rows' = CancelGroupDb(rows, sender, group_id)
                /\ ready' = ZRem(ready, records)
                /\ retry' = ZRem(retry, records)
           ELSE UNCHANGED <<rows, ready, retry>>
        /\ UNCHANGED <<pool, now, tasks, nextTid, watcher, sent,
                       lastUntil, cancelledEarly>>

NextCancel ==
    \/ \E batch \in Batches : Submit(batch)
    \/ \E header \in Headers, sender \in Addresses, group_id \in GroupIds :
          CancelRequest(header, sender, group_id)
    \/ TimeAdvance

SpecCancel == InitGroup /\ [][NextCancel]_vars

(* C11: a cancel request whose authorization header is missing, malformed  *)
(* or does not recover to the sender over keccak256(group_id) fails and    *)
(* changes no row and no index entry                                       *)
CancelNeedsSignature ==
    [][(call' # call /\ call'.op = "cancel_group")
       => \/ /\ call'.header \in SignatureHeaders
             /\ call'.header.signer = call'.sender
             /\ call'.header.over = call'.group_id
          \/ /\ call'.result \notin {"canceled", "group not found"}
             /\ UNCHANGED <<rows, ready, retry>>]_vars

(* C11 witness: rows stand after a refused request and fall after a        *)
(* verified one                                                            *)
RefusedThenCanceled ==
    /\ call.op = "cancel_group"
    /\ call.result = "signature does not match sender"
    /\ \E id \in TxIds : rows[id].status = Queued /\ ready[id] # NoTime
    /\ \E id \in TxIds : rows[id].status = CanceledLocally

-----------------------------------------------------------------------------
(* watcher.rs: ticks over a table of stored rows, with the chain's answers *)
(* recorded                                                                *)

NonceKeys == {"k1", "random"}

(* the transactions the table of a run may hold: any nonce key, nonce and  *)
(* valid_before, no valid_after                                            *)
WatchedTxs(id) ==
    { [ tx_hash |-> id, sender |-> "alice", nonce_key |-> k, nonce |-> n,
        valid_after |-> NoTime, valid_before |-> vb ] :
        k \in NonceKeys, n \in 0..(MaxNonce - 1), vb \in {NoTime, 1} }

(* watcher.rs lines 129-140 with the answers of fetch_current_nonce kept *)
ObservedNonces(current_nonce) ==
    /\ watcher.pc = "nonces"
    /\ rows' = MarkStaleRows(rows, watcher.pending, current_nonce)
    /\ watcher' = IdleWatcher
    /\ call' = [op |-> "nonces", pending |-> watcher.pending,
                current_nonce |-> current_nonce]
    /\ UNCHANGED <<pool, now, ready, retry, tasks, nextTid, sent,
                   lastUntil, cancelledEarly>>

InitWatcher ==
    /\ pool = {}
    /\ now = 0
    /\ \E txs \in [TxIds -> UNION { WatchedTxs(id) : id \in TxIds }] :
          /\ \A id \in TxIds : txs[id].tx_hash = id
          /\ rows = InsertAll([ id \in TxIds |-> AbsentRow ],
                              [ i \in 1..Cardinality(TxIds) |->
                                  PrepareNewTxFromParsed(txs[i], 0) ])
    /\ ready = [ id \in TxIds |-> NoTime ]
    /\ retry = [ id \in TxIds |-> NoTime ]
    /\ tasks = {}
    /\ nextTid = 1
    /\ watcher = IdleWatcher
    /\ sent = [ id \in TxIds |-> "never" ]
    /\ lastUntil = [ id \in TxIds |-> NoTime ]
    /\ cancelledEarly = [ id \in TxIds |-> FALSE ]
    /\ call = NoCall

NextWatcher ==
    \/ WatcherBegin
    \/ \E receipt \in ReceiptAnswers : WatcherVisit(receipt)
    \/ \E current_nonce \in [NonceGroups(watcher.pending) -> NonceAnswers] :
          ObservedNonces(current_nonce)
    \/ WatcherFail
    \/ TimeAdvance

SpecWatcher == InitWatcher /\ [][NextWatcher]_vars

NonceStep == call' # call /\ call'.op = "nonces"

ObservedNonce(id) == call'.current_nonce[<<rows[id].sender, rows[id].nonce_key>>]

(* C12: in a watcher tick every row of the snapshot that is not expired    *)
(* and has no receipt becomes StaleByNonce when its nonce is below the     *)
(* nonce observed for its (sender, nonce_key), and no row whose nonce is   *)
(* at or above the observed nonce is marked                                *)
StaleIffBelowObservedNonce ==
    [][NonceStep
       => /\ \A id \in watcher.pending :
                rows[id].nonce < ObservedNonce(id)
                => rows'[id].status = StaleByNonce
          /\ \A id \in TxIds :
                (rows'[id].status = StaleByNonce
                   /\ rows[id].status # StaleByNonce)
                => id \in watcher.pending
                     /\ rows[id].nonce < ObservedNonce(id)]_vars

(* C12 witness: of two rows of one group the observed nonce superseded one *)
OneOfGroupStale ==
    /\ call.op = "nonces"
    /\ \E id1, id2 \in call.pending :
          /\ rows[id1].nonce_key = rows[id2].nonce_key
          /\ rows[id1].status = StaleByNonce
          /\ rows[id2].status = Queued
          /\ call.current_nonce[<<rows[id2].sender, rows[id2].nonce_key>>]
               = rows[id2].nonce

(* C13: the watcher asks the chain for no nonce of a random-key group and  *)
(* marks no random-key row StaleByNonce                                    *)
RandomKeyExempt ==
    [][NonceStep
       => /\ \A g \in DOMAIN call'.current_nonce : ~ IsRandomNonceKey(g[2])
          /\ \A id \in TxIds :
                (IsRandomNonceKey(rows[id].nonce_key)
                   /\ rows[id].status # StaleByNonce)
                => rows'[id].status # StaleByNonce]_vars

-----------------------------------------------------------------------------
(* Expiry: one transaction with a validity window, one scheduler *)

InitExpiry == InitWith({ {id} : id \in { i \in TxIds :
                                          ParsedTx(i).valid_before # NoTime } })

NextExpiry ==
    \/ \E batch \in Batches : Submit(batch)
    \/ SchedulerTick("s1", MaxTasks, {TRUE}, {TRUE})
    \/ \E t \in tasks : TaskStart(t)
    \/ \E t \in tasks, o \in Outcomes : TaskFinish(t, o, {TRUE})
    \/ WatcherBegin
    \/ \E receipt \in ReceiptAnswers : WatcherVisit(receipt)
    \/ \E current_nonce \in [NonceGroups(watcher.pending) -> NonceAnswers] :
          WatcherNonces(current_nonce)
    \/ WatcherFail
    \/ TimeAdvance

SpecExpiry == InitExpiry /\ [][NextExpiry]_vars

ExpiredAt(id, t) ==
    /\ rows[id].status \in ActiveStatuses
    /\ rows[id].expires_at # NoTime /\ rows[id].expires_at <= t

(* the tasks whose handle_broadcast runs its checks in this step *)
VisitingTasks == { t \in tasks : t.pc = "start" /\ t \notin tasks' }

(* the watcher handles the head of its snapshot in this step (a failed     *)
(* tick goes idle and writes nothing)                                      *)
WatcherVisits ==
    /\ watcher.pc = "receipts"
    /\ watcher' # watcher
    /\ ~ (watcher' = IdleWatcher /\ rows' = rows)

(* C14: a non-terminal row with expires_at <= now becomes Expired when a   *)
(* broadcast task or a watcher tick next visits it, and is not broadcast   *)
(* in that visit                                                           *)
ExpiredOnVisit ==
    [][/\ \A t \in VisitingTasks :
             ExpiredAt(t.id, now)
             => /\ rows'[t.id].status = Expired
                /\ \A u \in tasks' : u.tid # t.tid
                /\ sent' = sent
       /\ (WatcherVisits /\ ExpiredAt(Head(watcher.todo), watcher.now))
             => /\ rows'[Head(watcher.todo)].status = Expired
                /\ sent' = sent]_vars

(* C14 witness: a task spawned for the row ended without a broadcast and   *)
(* the row is Expired                                                      *)
ExpiredByTask ==
    \E id \in TxIds :
        /\ rows[id].status = Expired
        /\ sent[id] = "never"
        /\ nextTid > 1 /\ tasks = {}

-----------------------------------------------------------------------------
(* Broadcast attempts: one scheduler and its tasks on one transaction *)

NextAttempts ==
    \/ \E batch \in Batches : Submit(batch)
    \/ SchedulerTick("s1", MaxTasks, {TRUE}, {TRUE})
    \/ \E t \in tasks : TaskStart(t)
    \/ \E t \in tasks, o \in Outcomes : TaskFinish(t, o, {TRUE})
    \/ TimeAdvance

SpecAttempts == Init /\ [][NextAttempts]_vars

InvalidTexts == { o.error : o \in { x \in Outcomes : x.kind = "Invalid" } }

(* C15: after a broadcast attempt with outcome Invalid the row is Invalid, *)
(* its last_error is the invalidity text and its attempts counter is one   *)
(* more than before the attempt                                            *)
InvalidCountsAttempt ==
    [][\A t \in FinishedTasks :
          rows'[t.id].status = Invalid
          => /\ rows'[t.id].last_error \in InvalidTexts
             /\ rows'[t.id].attempts = t.attempts + 1]_vars

LeaseHolds(t) ==
    rows[t.id].status = Broadcasting /\ rows[t.id].lease_owner = t.owner

(* C16: a task that finishes with outcome Accepted or Retry while the row  *)
(* is still Broadcasting under its owner leaves the row RetryScheduled,    *)
(* with one attempt more than the leased record had, no lease, and         *)
(* next_action_at the earlier of expires_at and the attempt's time plus    *)
(* the backoff of the new count; so no RetryScheduled row with an expiry   *)
(* is due after that expiry                                                *)
RetryScheduledWithinExpiry ==
    [][/\ \A t \in FinishedTasks :
            (LeaseHolds(t) /\ rows'[t.id].status # Invalid)
            => LET r == rows'[t.id]
                   due == t.now + RetryBackoffMs(t.attempts + 1, RetryMinMs,
                                                 RetryMaxMs) \div MsPerTick
               IN  /\ r.status = RetryScheduled
                   /\ r.attempts = t.attempts + 1
                   /\ r.lease_owner = NoOwner
                   /\ r.lease_until = NoTime
                   /\ r.next_action_at =
                        IF r.expires_at = NoTime THEN due
                        ELSE Min(r.expires_at, due)
       /\ \A id \in TxIds :
            (rows'[id].status = RetryScheduled
               /\ rows'[id].expires_at # NoTime)
            => rows'[id].next_action_at <= rows'[id].expires_at]_vars

(* a retry was scheduled at the expiry because the backoff reached past it *)
RetryClampedToExpiry ==
    \E id \in TxIds :
        /\ rows[id].status = RetryScheduled
        /\ rows[id].attempts > 0
        /\ rows[id].expires_at # NoTime
        /\ rows[id].next_action_at = rows[id].expires_at

-----------------------------------------------------------------------------
(* The retry delay as a function of its three arguments *)

MaxAttempts == 12

BackoffMs == {0, 1, 3, RetryMinMs, RetryMaxMs, WordMax}

BackoffCalls ==
    [op : {"retry_backoff_ms"}, attempts : 0..MaxAttempts,
     min_ms : BackoffMs, max_ms : BackoffMs, outcome : {"called"}]

InitBackoff ==
    /\ pool = {}
    /\ now = 0
    /\ rows = [ id \in TxIds |-> AbsentRow ]
    /\ ready = [ id \in TxIds |-> NoTime ]
    /\ retry = [ id \in TxIds |-> NoTime ]
    /\ tasks = {}
    /\ nextTid = 1
    /\ watcher = IdleWatcher
    /\ sent = [ id \in TxIds |-> "never" ]
    /\ lastUntil = [ id \in TxIds |-> NoTime ]
    /\ cancelledEarly = [ id \in TxIds |-> FALSE ]
    /\ call \in BackoffCalls

(* retry_backoff_ms(attempts, min_ms, max_ms) runs to its end or panics *)
RetryBackoffCall ==
    /\ call.op = "retry_backoff_ms" /\ call.outcome = "called"
    /\ call' = IF ClampPanics(call.min_ms, call.max_ms)
               THEN [call EXCEPT !.outcome = "panicked"]
               ELSE [op |-> call.op, attempts |-> call.attempts,
                     min_ms |-> call.min_ms, max_ms |-> call.max_ms,
                     outcome |-> "returned",
                     result |-> RetryBackoffMs(call.attempts, call.min_ms,
                                               call.max_ms)]
    /\ UNCHANGED <<pool, now, rows, ready, retry, tasks, nextTid, watcher,
                   sent, lastUntil, cancelledEarly>>

NextBackoff == RetryBackoffCall

SpecBackoff == InitBackoff /\ [][NextBackoff]_vars

(* clamp(min_ms * 2^min(k-1,10), min_ms, max_ms) over the integers *)
ClampedDoubling(k, min_ms, max_ms) ==
    Min(Max(min_ms * Pow2(Min(Max(k - 1, 0), MaxShift)), min_ms), max_ms)

(* C17: for every k >= 0 and every min_ms, max_ms, retry_backoff_ms        *)
(* returns (no panic), its result is the clamped doubling, lies between    *)
(* min_ms and max_ms, is min_ms for k in 0..1 and is not below the result  *)
(* for k - 1                                                               *)
BackoffTotalAndClamped ==
    (call.op = "retry_backoff_ms" /\ call.outcome # "called")
    => /\ call.outcome = "returned"
       /\ call.result = ClampedDoubling(call.attempts, call.min_ms,
                                        call.max_ms)
       /\ call.min_ms <= call.result /\ call.result <= call.max_ms
       /\ call.attempts <= 1 => call.result = call.min_ms
       /\ call.attempts > 0
            => call.result >= RetryBackoffMs(call.attempts - 1, call.min_ms,
                                             call.max_ms)

-----------------------------------------------------------------------------
(* The broadcaster as a function of the endpoints' answers *)

MaxEndpoints == 2

(* an error text is a sequence of phrases; `contains` looks for a phrase *)
Messages ==
    { <<"already known">>, <<"Invalid", "signature">>,
      <<"connection refused">>, <<"known transaction", "expired">> }

TimeoutMessage == <<"broadcast timeout">>

NoEndpointsMessage == <<"no rpc endpoints">>

(* what send_raw_transaction under the timeout yields at one endpoint *)
Responses ==
    {[kind |-> "ok"], [kind |-> "timeout"]}
        \cup { [kind |-> "err", msg |-> m] : m \in Messages }

(* str::to_lowercase on the phrases that are not lower case already *)
ToLowercase(phrase) ==
    CASE phrase = "Invalid" -> "invalid"
      [] phrase = "ALREADY KNOWN" -> "already known"
      [] phrase = "Known Transaction" -> "known transaction"
      [] phrase = "Fee Payer" -> "fee payer"
      [] phrase = "EXPIRED" -> "expired"
      [] phrase = "Timeout" -> "timeout"
      [] OTHER -> phrase

Contains(message, phrases) ==
    \E i \in 1..Len(message) : ToLowercase(message[i]) \in phrases

(* classify_error that tests the invalidity keywords first *)
ClassifyErrorInvalidFirst(message) ==
    IF Contains(message, {"invalid", "malformed", "signature",
                          "fee payer", "expired", "nonce key"})
    THEN "Invalid"
    ELSE IF Contains(message, {"already known", "known transaction",
                               "already imported", "already exists"})
         THEN "AlreadyKnown"
         ELSE "Retry"

(* broadcaster.rs classify_error *)
ClassifyError(message) ==
    IF Contains(message, {"already known", "known transaction",
                          "already imported", "already exists"})
    THEN "AlreadyKnown"
    ELSE IF Contains(message, {"invalid", "malformed", "signature",
                               "fee payer", "expired", "nonce key"})
         THEN "Invalid"
         ELSE "Retry"

(* the 0-based positions of chain.http that one call contacts *)
Contacted(total, fanout, attempt) ==
    LET n == Min(Max(fanout, 1), total)
        start == Max(attempt, 0) % total
    IN  { (start + idx) % total : idx \in 0..(n - 1) }

(* one pass of the loop body over the answer res *)
Collect(acc, res) ==
    IF res.kind = "ok" THEN [acc EXCEPT !.accepted = TRUE]
    ELSE IF res.kind = "timeout"
    THEN [acc EXCEPT !.errors = Append(@, TimeoutMessage)]
    ELSE LET class == ClassifyError(res.msg)
         IN  IF class = "AlreadyKnown"
             THEN [acc EXCEPT !.accepted = TRUE,
                              !.errors = Append(@, res.msg)]
             ELSE IF class = "Invalid"
             THEN [acc EXCEPT !.invalid_errors = Append(@, res.msg)]
             ELSE [acc EXCEPT !.errors = Append(@, res.msg)]

RECURSIVE FanOutFromFirst(_, _, _, _, _)
(* FanOut that always begins at the first endpoint *)
FanOutFromFirst(http, start, idx, fanout, acc) ==
    IF idx >= fanout THEN acc
    ELSE FanOutFromFirst(http, start, idx + 1, fanout,
                         Collect(acc, http[(idx % Len(http)) + 1]))

RECURSIVE FanOut(_, _, _, _, _)
FanOut(http, start, idx, fanout, acc) ==
    IF idx >= fanout THEN acc
    ELSE FanOut(http, start, idx + 1, fanout,
                Collect(acc, http[((start + idx) % Len(http)) + 1]))

(* broadcast_raw_tx that stops after the first endpoint *)
BroadcastRawTxFirstEndpoint(http, fanout, attempt) ==
    IF http = <<>>
    THEN [kind |-> "Retry", error |-> <<NoEndpointsMessage>>]
    ELSE LET acc == FanOut(http, Max(attempt, 0) % Len(http), 0, 1,
                           [accepted |-> FALSE, errors |-> <<>>,
                            invalid_errors |-> <<>>])
         IN  IF acc.accepted
             THEN [kind |-> "Accepted",
                   error |-> SubSeq(acc.errors, 1, Min(1, Len(acc.errors)))]
             ELSE IF acc.invalid_errors # <<>>
             THEN [kind |-> "Invalid", error |-> acc.invalid_errors]
             ELSE [kind |-> "Retry", error |-> acc.errors]

(* broadcaster.rs broadcast_raw_tx: http[i] is the answer endpoint i gives; *)
(* an optional error is a sequence of at most one text, a joined error the *)
(* sequence of the texts joined                                            *)
BroadcastRawTx(http, fanout, attempt) ==
    IF http = <<>>
    THEN [kind |-> "Retry", error |-> <<NoEndpointsMessage>>]
    ELSE LET total == Len(http)
             acc == FanOut(http, Max(attempt, 0) % total, 0,
                           Min(Max(fanout, 1), total),
                           [accepted |-> FALSE, errors |-> <<>>,
                            invalid_errors |-> <<>>])
         IN  IF acc.accepted
             THEN [kind |-> "Accepted",
                   error |-> SubSeq(acc.errors, 1, Min(1, Len(acc.errors)))]
             ELSE IF acc.invalid_errors # <<>>
             THEN [kind |-> "Invalid", error |-> acc.invalid_errors]
             ELSE [kind |-> "Retry", error |-> acc.errors]

EndpointLists ==
    UNION { [1..n -> Responses] : n \in 0..MaxEndpoints }

BroadcastCalls ==
    [op : {"broadcast_raw_tx"}, http : EndpointLists,
     fanout : 0..MaxEndpoints, attempt : 0..MaxEndpoints,
     outcome : {[kind |-> "called"]}]

InitBroadcast ==
    /\ pool = {}
    /\ now = 0
    /\ rows = [ id \in TxIds |-> AbsentRow ]
    /\ ready = [ id \in TxIds |-> NoTime ]
    /\ retry = [ id \in TxIds |-> NoTime ]
    /\ tasks = {}
    /\ nextTid = 1
    /\ watcher = IdleWatcher
    /\ sent = [ id \in TxIds |-> "never" ]
    /\ lastUntil = [ id \in TxIds |-> NoTime ]
    /\ cancelledEarly = [ id \in TxIds |-> FALSE ]
    /\ call \in BroadcastCalls

BroadcastCall ==
    /\ call.op = "broadcast_raw_tx" /\ call.outcome.kind = "called"
    /\ call' = [call EXCEPT !.outcome =
                    BroadcastRawTx(call.http, call.fanout, call.attempt)]
    /\ UNCHANGED <<pool, now, rows, ready, retry, tasks, nextTid, watcher,
                   sent, lastUntil, cancelledEarly>>

NextBroadcast == BroadcastCall

SpecBroadcast == InitBroadcast /\ [][NextBroadcast]_vars

Broadcasted == call.op = "broadcast_raw_tx" /\ call.outcome.kind # "called"

(* the answers of the endpoints the call contacted *)
ContactedResponses ==
    { call.http[i + 1] :
        i \in Contacted(Len(call.http), call.fanout, call.attempt) }

AnsweredWith(class) ==
    \E res \in ContactedResponses :
        res.kind = "err" /\ ClassifyError(res.msg) = class

AnyAccepted ==
    (\E res \in ContactedResponses : res.kind = "ok")
        \/ AnsweredWith("AlreadyKnown")

(* C18: with endpoints, the outcome is Accepted if a contacted endpoint    *)
(* succeeded or answered already-known, else Invalid if one answered with  *)
(* an invalidity error, else Retry; without endpoints it is Retry with the *)
(* error "no rpc endpoints"                                                *)
OutcomeAggregatesResponses ==
    Broadcasted
    => IF call.http = <<>>
       THEN call.outcome = [kind |-> "Retry",
                            error |-> <<NoEndpointsMessage>>]
       ELSE call.outcome.kind =
              IF AnyAccepted THEN "Accepted"
              ELSE IF AnsweredWith("Invalid") THEN "Invalid"
              ELSE "Retry"

(* an endpoint's acceptance outweighed another endpoint's invalidity error *)
AcceptedDespiteInvalid ==
    /\ Broadcasted
    /\ call.outcome.kind = "Accepted"
    /\ AnsweredWith("Invalid")
    /\ Cardinality(Contacted(Len(call.http), call.fanout, call.attempt)) > 1

(* C19: the error of an Accepted outcome is none or the text of an         *)
(* already-known answer, never a retryable, timeout or invalidity text     *)
AcceptedErrorIsInformational ==
    (Broadcasted /\ call.outcome.kind = "Accepted")
    => \/ call.outcome.error = <<>>
       \/ /\ ClassifyError(call.outcome.error[1]) = "AlreadyKnown"
          /\ call.outcome.error[1] # TimeoutMessage

-----------------------------------------------------------------------------
(* Repeated submission of one transaction while the scheduler works on it *)

(* submit_transactions for a batch of one: store_transactions keeps what   *)
(* insert_tx returned                                                      *)
SubmitOne(id) ==
    LET new_tx == PrepareNewTxFromParsed(ParsedTx(id), now)
        ret    == InsertTxReturn(rows, new_tx)
    IN  /\ new_tx.ok
        /\ BatchValid(rows, <<new_tx>>)
        /\ rows' = InsertTx(rows, new_tx)
        /\ ready' = ScheduleRecords(ready, rows', <<id>>)
        /\ call' = [op |-> "insert_tx", tx_hash |-> id,
                    record |-> ret.record,
                    already_known |-> ret.already_known]
        /\ UNCHANGED <<pool, now, retry, tasks, nextTid, watcher, sent,
                       lastUntil, cancelledEarly>>

NextInsert ==
    \/ \E id \in pool : SubmitOne(id)
    \/ SchedulerTick("s1", MaxTasks, {TRUE}, {TRUE})
    \/ \E t \in tasks : TaskStart(t)
    \/ \E t \in tasks, o \in Outcomes : TaskFinish(t, o, {TRUE})
    \/ TimeAdvance

SpecInsert == Init /\ [][NextInsert]_vars

InsertStep == call' # call /\ call'.op = "insert_tx"

(* C20: an insert of a stored hash changes no field of any row and returns *)
(* the stored row with already_known = true; the insert of a new hash      *)
(* returns the new row with already_known = false; an insert that follows  *)
(* an insert of the same hash with the row as that one left it returns an  *)
(* equal record                                                            *)
InsertIdempotent ==
    [][InsertStep
       => LET id == call'.tx_hash
          IN  /\ call'.record = rows'[id]
              /\ rows[id].status # Absent
                   => /\ rows' = rows
                      /\ call'.already_known
                      /\ call'.record = rows[id]
              /\ rows[id].status = Absent => ~ call'.already_known
              /\ (call.op = "insert_tx" /\ call.tx_hash = id
                    /\ rows[id] = call.record)
                   => call'.record = call.record]_vars

(* a second insert returned a row that the scheduler had worked on *)
KnownRowReturned ==
    /\ call.op = "insert_tx"
    /\ call.already_known
    /\ call.record.attempts > 0
    /\ rows[call.tx_hash] = call.record

-----------------------------------------------------------------------------
(* Ingress: batches of arbitrary transactions, accepted or rejected *)

IngressNonceKeys == {"k1", "k1twin", "random"}

(* what parse_raw_tx may yield for the hash id *)
IngressTxs(id) ==
    { [ tx_hash |-> id, sender |-> "alice", nonce_key |-> k, nonce |-> n,
        valid_after |-> va, valid_before |-> vb ] :
        k \in IngressNonceKeys, n \in 0..1, va \in {NoTime, 1},
        vb \in {NoTime, 1, 2} }

(* the clients hold one signed transaction per hash *)
IngressPools ==
    { { txs[id] : id \in TxIds } :
        txs \in { f \in [TxIds -> UNION { IngressTxs(id) : id \in TxIds }] :
                    \A id \in TxIds : f[id].tx_hash = id } }

IngressBatches ==
    { <<tx>> : tx \in pool }
        \cup { <<p[1], p[2]>> : p \in { q \in pool \X pool : q[1] # q[2] } }

(* api.rs submit_transactions: the first member that cannot be prepared    *)
(* or a group check of store_transactions ends the request with 400 and    *)
(* the database transaction is dropped; otherwise the batch is inserted    *)
(* and scheduled                                                           *)
SubmitRequest(batch) ==
    LET prepared == [ i \in 1..Len(batch) |->
                        PrepareNewTxFromParsed(batch[i], now) ]
        hashes   == [ i \in 1..Len(batch) |-> batch[i].tx_hash ]
        accepted == /\ \A i \in 1..Len(batch) : prepared[i].ok
                    /\ BatchValid(rows, prepared)
    IN  /\ rows' = IF accepted THEN InsertAll(rows, prepared) ELSE rows
        /\ ready' = IF accepted THEN ScheduleRecords(ready, rows', hashes)
                    ELSE ready
        /\ call' = [op |-> "submit_transactions", batch |-> batch,
                    ok |-> accepted]
        /\ UNCHANGED <<pool, now, retry, tasks, nextTid, watcher, sent,
                       lastUntil, cancelledEarly>>

InitIngress ==
    /\ pool \in IngressPools
    /\ now = 0
    /\ rows = [ id \in TxIds |-> AbsentRow ]
    /\ ready = [ id \in TxIds |-> NoTime ]
    /\ retry = [ id \in TxIds |-> NoTime ]
    /\ tasks = {}
    /\ nextTid = 1
    /\ watcher = IdleWatcher
    /\ sent = [ id \in TxIds |-> "never" ]
    /\ lastUntil = [ id \in TxIds |-> NoTime ]
    /\ cancelledEarly = [ id \in TxIds |-> FALSE ]
    /\ call = NoCall

NextIngress ==
    \/ \E batch \in IngressBatches : SubmitRequest(batch)
    \/ TimeAdvance

SpecIngress == InitIngress /\ [][NextIngress]_vars

SameGroup(a, b) ==
    rows[a].sender = rows[b].sender /\ rows[a].group_id = rows[b].group_id

(* C21: the stored rows of one (sender, group_id) share one nonce_key, and *)
(* of two of them with valid_before set, the one with the smaller nonce    *)
(* does not have the larger valid_before                                   *)
GroupKeyAndWindowOrder ==
    \A a, b \in TxIds :
        (Stored(a) /\ Stored(b) /\ SameGroup(a, b))
        => /\ rows[a].nonce_key = rows[b].nonce_key
           /\ (rows[a].valid_before # NoTime /\ rows[b].valid_before # NoTime
                 /\ rows[a].nonce < rows[b].nonce)
                => rows[a].valid_before <= rows[b].valid_before

(* a group of two rows, both with valid_before, stored by two requests, *)
(* after a request was rejected                                         *)
GroupGrownAfterRejection ==
    /\ \A id \in TxIds : Stored(id) /\ rows[id].valid_before # NoTime
    /\ SameGroup(1, 2)
    /\ rows[1].nonce # rows[2].nonce
    /\ rows[1].eligible_at # rows[2].eligible_at
    /\ call.op = "submit_transactions" /\ ~ call.ok

(* sender, group, key, nonce and valid_before of the members of a batch    *)
(* and of the stored rows                                                  *)
GroupMembers(batch) ==
    { [sender |-> batch[i].sender,
       group_id |-> GroupIdFromNonceKey(batch[i].nonce_key),
       nonce_key |-> batch[i].nonce_key, nonce |-> batch[i].nonce,
       valid_before |-> batch[i].valid_before] : i \in 1..Len(batch) }
      \cup
    { [sender |-> rows[id].sender, group_id |-> rows[id].group_id,
       nonce_key |-> rows[id].nonce_key, nonce |-> rows[id].nonce,
       valid_before |-> rows[id].valid_before] :
         id \in { i \in TxIds : Stored(i) } }

(* the five kinds of client invalidity, for a batch submitted now *)
ClientInvalid(batch) ==
    \/ \E i \in 1..Len(batch) :
          \/ /\ batch[i].valid_after # NoTime
             /\ batch[i].valid_before # NoTime
             /\ batch[i].valid_before <= batch[i].valid_after
          \/ /\ batch[i].valid_before # NoTime
             /\ batch[i].valid_before * TicksPerSecond <= now
          \/ /\ batch[i].nonce_key = "random"
             /\ batch[i].valid_after # NoTime
    \/ \E a, b \in GroupMembers(batch) :
          /\ a.sender = b.sender /\ a.group_id = b.group_id
          /\ \/ a.nonce_key # b.nonce_key
             \/ /\ a.valid_before # NoTime /\ b.valid_before # NoTime
                /\ a.nonce < b.nonce /\ a.valid_before > b.valid_before

(* C22: a request with a client-invalid batch is rejected, stores no row,  *)
(* changes no stored row and adds nothing to the ready index               *)
InvalidBatchLeavesNoTrace ==
    [][(now' = now /\ call'.op = "submit_transactions"
          /\ ClientInvalid(call'.batch))
       => /\ ~ call'.ok
          /\ rows' = rows
          /\ ready' = ready]_vars

(* a batch was rejected whose first member was new and valid by itself, *)
(* while the other one was stored                                       *)
ValidMemberRejectedWithBatch ==
    /\ call.op = "submit_transactions" /\ ~ call.ok
    /\ Len(call.batch) = 2
    /\ ~ Stored(call.batch[1].tx_hash)
    /\ PrepareNewTxFromParsed(call.batch[1], now).ok
    /\ Stored(call.batch[2].tx_hash)

(* the rows a step stored *)
NewlyStored == { id \in TxIds : rows[id].status = Absent /\ Stored(id)' }

(* the transaction of the request that has the hash id *)
Submitted(id) ==
    CHOOSE tx \in { call'.batch[i] : i \in 1..Len(call'.batch) } :
        tx.tx_hash = id

(* C23: a newly stored row is Queued with raw_tx, attempts 0 and no lease; *)
(* eligible_at is the later of the insertion time and valid_after,         *)
(* next_action_at equals it, and it is not after expires_at                *)
NewRowFields ==
    [][\A id \in NewlyStored :
          LET r  == rows'[id]
              va == Submitted(id).valid_after
          IN  /\ r.status = Queued
              /\ r.raw_tx
              /\ r.attempts = 0
              /\ r.lease_owner = NoOwner /\ r.lease_until = NoTime
              /\ r.eligible_at =
                   IF va = NoTime THEN now
                   ELSE Max(now, va * TicksPerSecond)
              /\ r.next_action_at = r.eligible_at
              /\ r.expires_at # NoTime => r.eligible_at <= r.expires_at]_vars

(* a row was stored to become eligible later, at the second its window *)
(* closes at the earliest                                              *)
StoredForLater ==
    \E id \in TxIds :
        /\ Stored(id)
        /\ rows[id].status = Queued
        /\ rows[id].expires_at # NoTime
        /\ rows[id].eligible_at > 0
        /\ rows[id].next_action_at = rows[id].eligible_at
        /\ now < rows[id].eligible_at

-----------------------------------------------------------------------------
(* Death of the process and the recovery pass of its successor *)

(* the process of scheduler s dies with tasks in flight; main of the next  *)
(* process runs the recovery pass before it starts scheduler and watcher   *)
ProcessRestart(s) ==
    /\ InFlight(s) # {}
    /\ tasks' = tasks \ InFlight(s)
    /\ rows' = RecoverAfterRestart(rows, now)
    /\ call' = [op |-> "recover_after_restart", owner |-> s, at |-> now,
                leased |-> { t.id : t \in InFlight(s) }]
    /\ UNCHANGED <<pool, now, ready, retry, nextTid, watcher, sent,
                   lastUntil, cancelledEarly>>

NextRecovery ==
    \/ \E batch \in Batches : Submit(batch)
    \/ SchedulerTick("s1", MaxTasks, {TRUE}, {TRUE})
    \/ \E t \in tasks : TaskStart(t)
    \/ \E t \in tasks, o \in Outcomes : TaskFinish(t, o, {TRUE})
    \/ ProcessRestart("s1")
    \/ TimeAdvance

SpecRecovery == Init /\ [][NextRecovery]_vars

RecoveryStep == call' # call /\ call'.op = "recover_after_restart"

(* C24: a row that the dead process had leased and that is still           *)
(* Broadcasting under its lease is, after the recovery pass,               *)
(* RetryScheduled and due now, without a lease                             *)
LeasedRowRecovered ==
    [][RecoveryStep
       => \A id \in call'.leased :
            (rows[id].status = Broadcasting
               /\ rows[id].lease_owner = call'.owner)
            => /\ rows'[id].status = RetryScheduled
               /\ rows'[id].next_action_at = now
               /\ rows'[id].lease_owner = NoOwner
               /\ rows'[id].lease_until = NoTime]_vars

-----------------------------------------------------------------------------
(* Progress after a crash or a task that never writes back: two schedulers *)
(* whose ticks keep occurring, tasks that may hang for ever                *)

(* more tasks than a run of MaxTime ticks can spawn *)
LiveCap == 30

Tick(s) == SchedulerTick(s, LiveCap, {TRUE}, {TRUE})

NextReclaim ==
    \/ \E batch \in Batches : Submit(batch)
    \/ \E s \in Schedulers : Tick(s)
    \/ \E t \in tasks : TaskStart(t)
    \/ \E t \in tasks, o \in Outcomes : TaskFinish(t, o, {TRUE})
    \/ \E s \in Schedulers : ProcessRestart(s)
    \/ TimeAdvance

SpecReclaim ==
    /\ Init /\ [][NextReclaim]_vars
    /\ \A s \in Schedulers : WF_vars(Tick(s))

FreePermit(s) == Cardinality(InFlight(s)) < MaxConcurrency

(* Broadcasting under a lease that has run out, and a scheduler has a permit *)
Abandoned(id) ==
    /\ rows[id].status = Broadcasting
    /\ rows[id].lease_until < now
    /\ \E s \in Schedulers : FreePermit(s)

-----------------------------------------------------------------------------
(* Progress without the index: the zones are lost or hold anything, and    *)
(* any call to the index may fail                                          *)

(* what the zones may hold after a flush or after entries went stale:      *)
(* nothing, every hash as due, every hash as due in the far future         *)
IndexContents ==
    { [ id \in TxIds |-> score ] : score \in {NoTime, 0, MaxTime} }

(* the index is outside the process: its content changes under it *)
IndexFault(zone) ==
    /\ ready' = zone /\ retry' = zone
    /\ call' = [op |-> "index_fault", zone |-> zone,
                due |-> { id \in TxIds : LeaseEligible(rows[id], now) }]
    /\ UNCHANGED <<pool, now, rows, tasks, nextTid, watcher, sent,
                   lastUntil, cancelledEarly>>

FaultyTick(s) == SchedulerTick(s, LiveCap, {TRUE, FALSE}, {TRUE})

NextIndexless ==
    \/ \E batch \in Batches : Submit(batch)
    \/ \E zone \in IndexContents : IndexFault(zone)
    \/ FaultyTick("s1")
    \/ \E t \in tasks : TaskStart(t)
    \/ \E t \in tasks, o \in Outcomes : TaskFinish(t, o, {TRUE, FALSE})
    \/ TimeAdvance

(* ticks keep occurring, every task ends, so permits come free, and time *)
(* passes                                                                *)
SpecIndexless ==
    /\ Init /\ [][NextIndexless]_vars
    /\ WF_vars(TimeAdvance)
    /\ WF_vars(FaultyTick("s1"))
    /\ WF_vars(\E t \in tasks : TaskStart(t))
    /\ WF_vars(\E t \in tasks, o \in Outcomes : TaskFinish(t, o, {TRUE, FALSE}))

DueInStore(id) ==
    /\ rows[id].status \in {Queued, RetryScheduled}
    /\ rows[id].next_action_at # NoTime
    /\ rows[id].next_action_at <= now

Dispatched(id) ==
    /\ rows[id].status = Broadcasting
    /\ \E t \in tasks : t.id = id /\ t.pc = "start"

(* a task that was in flight has written the outcome of its attempt *)
Rescheduled(id) ==
    rows[id].status = RetryScheduled /\ rows[id].next_action_at > now

(* C26: whatever the index holds and however its calls fail, a row that is *)
(* due in the store is leased and dispatched, unless a task in flight or   *)
(* another writer reschedules it or makes it terminal first                *)
DueRowDispatchedWithoutIndex ==
    \A id \in TxIds :
        DueInStore(id)
          ~> \/ Dispatched(id)
             \/ Rescheduled(id)
             \/ rows[id].status \notin ActiveStatuses

(* a due row was dispatched at the instant the index had lost its entry *)
DispatchedAfterIndexLoss ==
    \E id \in TxIds :
        /\ call.op = "index_fault" /\ id \in call.due
        /\ call.zone[id] = NoTime
        /\ ready[id] = NoTime /\ retry[id] = NoTime
        /\ Dispatched(id)

-----------------------------------------------------------------------------
(* A transaction that is on chain: every receipt query of the watcher is   *)
(* answered with the receipt, while the schedulers go on with the row      *)

(* lines 100-112 with the chain holding the receipt of every transaction   *)
(* whose validity window has opened                                        *)
ReceiptVisit ==
    /\ watcher.pc = "receipts"
    /\ \E receipt \in {ChainMayHoldReceipt(Head(watcher.todo), now)} :
          WatcherVisit(receipt)

WatcherNonceStep ==
    \E current_nonce \in [NonceGroups(watcher.pending) -> NonceAnswers] :
        WatcherNonces(current_nonce)

NextReceipt ==
    \/ \E batch \in Batches : Submit(batch)
    \/ Tick("s1")
    \/ \E t \in tasks : TaskStart(t)
    \/ \E t \in tasks, o \in Outcomes : TaskFinish(t, o, {TRUE})
    \/ WatcherBegin
    \/ ReceiptVisit
    \/ WatcherNonceStep
    \/ TimeAdvance

(* the watcher and the scheduler loop on their intervals, every query and  *)
(* every broadcast is answered, time passes                                *)
SpecReceipt ==
    /\ Init /\ [][NextReceipt]_vars
    /\ WF_vars(WatcherBegin) /\ WF_vars(ReceiptVisit)
    /\ WF_vars(WatcherNonceStep)
    /\ WF_vars(Tick("s1"))
    /\ WF_vars(\E t \in tasks : TaskStart(t))
    /\ WF_vars(\E t \in tasks, o \in Outcomes : TaskFinish(t, o, {TRUE}))
    /\ WF_vars(TimeAdvance)

(* C27: a row whose receipt the chain reports at every watcher tick, once *)
(* the watcher has made it Executed with the receipt stored, is Executed  *)
(* for ever from some point on                                            *)
ExecutedForGood ==
    \A id \in TxIds :
        (rows[id].status = Executed /\ rows[id].receipt)
          ~> [](rows[id].status = Executed)

-----------------------------------------------------------------------------
(* Retrying until terminal: every writer of the store at work, ticks that  *)
(* keep occurring, attempts that end, time that passes                     *)

NextRetrying ==
    \/ \E batch \in Batches : Submit(batch)
    \/ CancelGroup("alice", GroupIdFromNonceKey("k1"))
    \/ Tick("s1")
    \/ \E t \in tasks : TaskStart(t)
    \/ \E t \in tasks, o \in Outcomes : TaskFinish(t, o, {TRUE})
    \/ ProcessRestart("s1")
    \/ WatcherBegin
    \/ \E receipt \in ReceiptAnswers : WatcherVisit(receipt)
    \/ WatcherNonceStep
    \/ WatcherFail
    \/ TimeAdvance

SpecRetrying ==
    /\ Init /\ [][NextRetrying]_vars
    /\ WF_vars(Tick("s1"))
    /\ WF_vars(\E t \in tasks : TaskStart(t))
    /\ WF_vars(\E t \in tasks, o \in Outcomes : TaskFinish(t, o, {TRUE}))
    /\ WF_vars(TimeAdvance)

(* the row waits for an attempt that falls within the run *)
Waiting(id) ==
    /\ rows[id].status \in {Queued, RetryScheduled}
    /\ rows[id].next_action_at <= MaxTime

(* C28: a Queued or RetryScheduled row always has a next_action_at, and     *)
(* under fair ticks a waiting row is leased and dispatched, unless it is    *)
(* made terminal or moved to a later time first                             *)
NoRowAbandoned ==
    /\ [](\A id \in TxIds :
            rows[id].status \in {Queued, RetryScheduled}
              => rows[id].next_action_at # NoTime)
    /\ \A id \in TxIds :
          Waiting(id)
            ~> \/ Dispatched(id)
               \/ rows[id].status \in TerminalStatuses
               \/ rows[id].next_action_at > MaxTime

(* a row whose attempt failed is dispatched for the next one *)
DispatchedAgain ==
    \E id \in TxIds :
        /\ rows[id].attempts > 0
        /\ rows[id].last_error = "broadcast timeout"
        /\ Dispatched(id)

-----------------------------------------------------------------------------
(* api.rs router: the routes of the HTTP interface *)

Methods == {"GET", "POST", "DELETE"}

TransactionPath == "/v1/transactions/:tx_hash"

(* lines 26-41: path, method, handler *)
Routes ==
    { <<"/rpc", "POST", "rpc_handler">>,
      <<"/v1/transactions", "POST", "submit_transactions">>,
      <<"/v1/transactions", "GET", "list_transactions">>,
      <<TransactionPath, "GET", "get_transaction">>,
      <<"/v1/senders/:sender/groups", "GET", "list_groups">>,
      <<"/v1/senders/:sender/groups/:group_id", "GET", "get_group">>,
      <<"/v1/senders/:sender/groups/:group_id/cancel", "POST",
        "cancel_group">> }

(* axum: a path with no handler for the method answers 405, an unknown    *)
(* path 404                                                               *)
Router(method, path) ==
    IF \E r \in Routes : r[1] = path /\ r[2] = method
    THEN (CHOOSE r \in Routes : r[1] = path /\ r[2] = method)[3]
    ELSE IF \E r \in Routes : r[1] = path
    THEN "method_not_allowed"
    ELSE "not_found"

(* lines 508-521: the stored row as TxInfo, or 404 *)
GetTransaction(rs, tx_hash) ==
    IF rs[tx_hash].status = Absent
    THEN [code |-> "404 Not Found", status |-> "none"]
    ELSE [code |-> "200 OK", status |-> rs[tx_hash].status]

(* a request on /v1/transactions/{tx_hash}?chainId=... while the chain's  *)
(* nonce of the sender's key is current_nonce; no handler of the path     *)
(* writes                                                                 *)
TransactionRequest(method, tx_hash, current_nonce) ==
    /\ call' = [op |-> "transaction_request", method |-> method,
                tx_hash |-> tx_hash, current_nonce |-> current_nonce,
                response |->
                  IF Router(method, TransactionPath) = "get_transaction"
                  THEN GetTransaction(rows, tx_hash)
                  ELSE [code |-> "405 Method Not Allowed",
                        status |-> "none"]]
    /\ UNCHANGED <<pool, now, rows, ready, retry, tasks, nextTid, watcher,
                   sent, lastUntil, cancelledEarly>>

NextRouter ==
    \/ \E batch \in Batches : Submit(batch)
    \/ \E method \in Methods, tx_hash \in TxIds,
          current_nonce \in NonceAnswers :
          TransactionRequest(method, tx_hash, current_nonce)
    \/ TimeAdvance

SpecRouter == Init /\ [][NextRouter]_vars

(* C29: DELETE /v1/transactions/{tx_hash} for a stored transaction whose  *)
(* nonce the chain has passed succeeds and reports the row with status    *)
(* stale_by_nonce                                                         *)
CancelByHashReportsStale ==
    [][(/\ call' # call
        /\ call'.op = "transaction_request"
        /\ call'.method = "DELETE"
        /\ Stored(call'.tx_hash)
        /\ call'.current_nonce > rows[call'.tx_hash].nonce)
       => /\ call'.response.code = "200 OK"
          /\ call'.response.status = StaleByNonce]_vars

-----------------------------------------------------------------------------
(* db.rs lease_tx_by_hash as the scheduler calls it for one hash of the    *)
(* index's answer, whatever the index holds                                *)

(* scheduler.rs lines 50-75 for one hash: the statement, the task for the *)
(* returned row, the removal of the index entry                           *)
LeaseByHashCall(s, tx_hash) ==
    \E lease_until \in {now + LeaseTtlSeconds * TicksPerSecond} :
    \E after \in {LeaseTxByHash(rows, tx_hash, now, s, lease_until)} :
    \E returned \in {after # rows} :
        /\ Cardinality(InFlight(s)) < MaxConcurrency
        /\ nextTid <= MaxTasks
        /\ rows' = after
        /\ tasks' = IF returned
                    THEN tasks \cup {NewTask(nextTid, s, after[tx_hash],
                                             tx_hash)}
                    ELSE tasks
        /\ nextTid' = IF returned THEN nextTid + 1 ELSE nextTid
        /\ ready' = ZRem(ready, {tx_hash})
        /\ retry' = ZRem(retry, {tx_hash})
        /\ call' = [op |-> "lease_tx_by_hash", tx_hash |-> tx_hash,
                    now |-> now, lease_owner |-> s,
                    lease_until |-> lease_until,
                    was |-> rows[tx_hash].status, returned |-> returned]
        /\ lastUntil' = [lastUntil EXCEPT ![tx_hash] =
                            IF returned THEN lease_until ELSE @]
        /\ UNCHANGED <<pool, now, watcher, sent, cancelledEarly>>

NextLease ==
    \/ \E batch \in Batches : Submit(batch)
    \/ CancelGroup("alice", GroupIdFromNonceKey("k1"))
    \/ \E s \in Schedulers, tx_hash \in TxIds : LeaseByHashCall(s, tx_hash)
    \/ \E t \in tasks : TaskStart(t)
    \/ \E t \in tasks, o \in Outcomes : TaskFinish(t, o, {TRUE})
    \/ TimeAdvance

SpecLease == Init /\ [][NextLease]_vars

LeaseStep == call' # call /\ call'.op = "lease_tx_by_hash"

(* the row exists, is Queued, RetryScheduled or Broadcasting with          *)
(* lease_until < t, and next_action_at <= t                                *)
MayBeLeased(r, t) ==
    /\ r.status # Absent
    /\ \/ r.status \in {Queued, RetryScheduled}
       \/ r.status = Broadcasting
            /\ r.lease_until # NoTime /\ r.lease_until < t
    /\ r.next_action_at # NoTime /\ r.next_action_at <= t

(* C30: lease_tx_by_hash makes the row Broadcasting with the given owner   *)
(* and lease_until and returns it iff the row exists, is Queued,           *)
(* RetryScheduled or Broadcasting with lease_until < now, and is due;      *)
(* otherwise it returns nothing and no row changes                         *)
LeaseByHashIffEligible ==
    [][LeaseStep =>
         IF MayBeLeased(rows[call'.tx_hash], call'.now)
         THEN /\ call'.returned
              /\ rows' = [rows EXCEPT ![call'.tx_hash] =
                            [@ EXCEPT !.status = Broadcasting,
                                      !.lease_owner = call'.lease_owner,
                                      !.lease_until = call'.lease_until]]
         ELSE /\ ~ call'.returned
              /\ rows' = rows]_vars

(* a Broadcasting row whose lease had run out was taken by hash *)
ExpiredLeaseTakenByHash ==
    /\ call.op = "lease_tx_by_hash" /\ call.returned
    /\ call.was = Broadcasting
    /\ rows[call.tx_hash].status = Broadcasting
    /\ rows[call.tx_hash].lease_owner = call.lease_owner
    /\ rows[call.tx_hash].lease_until = call.lease_until

-----------------------------------------------------------------------------
(* The worker pool: two rows of one group, schedulers whose tasks outlive  *)
(* their leases                                                            *)

NextPermits ==
    \/ \E batch \in Batches : Submit(batch)
    \/ \E s \in Schedulers : SchedulerTick(s, MaxTasks, {TRUE, FALSE}, {TRUE})
    \/ \E t \in tasks : TaskStart(t)
    \/ \E t \in tasks, o \in Outcomes : TaskFinish(t, o, {TRUE})
    \/ TimeAdvance

SpecPermits == InitGroup /\ [][NextPermits]_vars

(* the tasks a step spawned for scheduler s *)
Spawned(s) ==
    { t \in tasks' : t.owner = s /\ \A u \in tasks : u.tid # t.tid }

(* C31: a scheduler never has more than max_concurrency tasks in flight,  *)
(* and a tick leases at most as many rows as it found permits free, none  *)
(* when it found no permit                                                *)
PermitsBoundLeases ==
    /\ [](\A s \in Schedulers : Cardinality(InFlight(s)) <= MaxConcurrency)
    /\ [][\A s \in Schedulers :
            Cardinality(Spawned(s))
              <= MaxConcurrency - Cardinality(InFlight(s))]_vars

(* a tick took the last permit and left a due row for a later tick *)
DueRowLeftForLaterTick ==
    \E s \in Schedulers :
        /\ Cardinality(InFlight(s)) = MaxConcurrency
        /\ \E t \in InFlight(s) : t.pc = "start" /\ t.tid = nextTid - 1
        /\ \E id \in TxIds : LeaseEligible(rows[id], now)

-----------------------------------------------------------------------------
(* The index read of a tick: one scheduler whose index calls succeed and   *)
(* whose store may fail, two rows that enter both zones                    *)

IndexTick == SchedulerTick("s1", MaxTasks, {TRUE}, {TRUE, FALSE})

NextIndex ==
    \/ \E batch \in Batches : Submit(batch)
    \/ IndexTick
    \/ \E t \in tasks : TaskStart(t)
    \/ \E t \in tasks, o \in Outcomes : TaskFinish(t, o, {TRUE})
    \/ TimeAdvance

SpecIndex == InitGroup /\ [][NextIndex]_vars

(* what a tick of s1 taken in this state reads from the index *)
DueRead == FetchDueFromRedis(now, MaxConcurrency - Cardinality(InFlight("s1")))

(* the hashes whose entry in the zone is due *)
DueIn(zone) ==
    { id \in TxIds : zone[id] # NoTime /\ zone[id] <= Timestamp(now) }

(* the step is a tick: it spawned a task or took entries out of a zone,   *)
(* and no task ended                                                      *)
IndexTickStep ==
    /\ now' = now /\ tasks \subseteq tasks'
    /\ \/ nextTid' # nextTid
       \/ \E id \in TxIds : ready[id] # NoTime /\ ready'[id] = NoTime
       \/ \E id \in TxIds : retry[id] # NoTime /\ retry'[id] = NoTime

(* C32: the hashes a tick reads are at most the free permits, all due by  *)
(* score, the ready zone's before the retry zone's and the retry zone's   *)
(* only once the ready zone's due entries are all taken; the tick removes *)
(* every hash it read from both zones, whatever its lease returned        *)
IndexReadBoundedAndRemoved ==
    /\ [](/\ Len(DueRead) <= MaxConcurrency - Cardinality(InFlight("s1"))
          /\ SeqRange(DueRead) \subseteq DueIn(ready) \cup DueIn(retry)
          /\ \A i, j \in 1..Len(DueRead) :
                (i < j /\ DueRead[j] \in DueIn(ready))
                  => DueRead[i] \in DueIn(ready)
          /\ (\E i \in 1..Len(DueRead) : DueRead[i] \notin DueIn(ready))
                => DueIn(ready) \subseteq SeqRange(DueRead))
    /\ [][IndexTickStep =>
            \A id \in SeqRange(DueRead) :
                ready'[id] = NoTime /\ retry'[id] = NoTime]_vars

(* a tick read a hash whose lease returned nothing or failed, and its    *)
(* entries are gone while the row is still due in the store              *)
EntryRemovedWithoutLease ==
    \E id \in TxIds :
        /\ LeaseEligible(rows[id], now)
        /\ rows[id].next_action_at # NoTime
        /\ Timestamp(rows[id].next_action_at) <= Timestamp(now)
        /\ ready[id] = NoTime /\ retry[id] = NoTime
        /\ rows[id].attempts = 0 /\ rows[id].status = Queued

-----------------------------------------------------------------------------
(* db.rs recover_stuck_broadcasts as a statement over any content of the   *)
(* table txs: the store outlives the process, and the column               *)
(* next_action_at is nullable whatever the status                          *)

(* the rows a table may hold for transaction id *)
StoredRows(id) ==
    { [AbsentRow EXCEPT !.status = status,
                        !.raw_tx = status \in ActiveStatuses,
                        !.sender = "alice",
                        !.nonce_key = "k1",
                        !.nonce = id - 1,
                        !.group_id = GroupIdFromNonceKey("k1"),
                        !.eligible_at = 0,
                        !.next_action_at = next_action_at,
                        !.lease_owner = lease[1],
                        !.lease_until = lease[2],
                        !.attempts = attempts] :
        status \in {Queued, Broadcasting, RetryScheduled, Executed,
                    CanceledLocally},
        next_action_at \in {NoTime, 1},
        lease \in {<<NoOwner, NoTime>>, <<"s1", 1>>, <<"s1", 3>>},
        attempts \in {0, 2} }

Tables == { t \in [TxIds -> UNION { StoredRows(id) : id \in TxIds }] :
              \A id \in TxIds : t[id] \in StoredRows(id) }

InitRecoverCall ==
    /\ pool = {}
    /\ now \in {0, 2}
    /\ rows \in Tables
    /\ ready = [ id \in TxIds |-> NoTime ]
    /\ retry = [ id \in TxIds |-> NoTime ]
    /\ tasks = {}
    /\ nextTid = 1
    /\ watcher = IdleWatcher
    /\ sent = [ id \in TxIds |-> "never" ]
    /\ lastUntil = [ id \in TxIds |-> NoTime ]
    /\ cancelledEarly = [ id \in TxIds |-> FALSE ]
    /\ call = [op |-> "recover_stuck_broadcasts", outcome |-> "called"]

RecoverCall ==
    /\ call.op = "recover_stuck_broadcasts" /\ call.outcome = "called"
    /\ rows' = RecoverStuckBroadcasts(rows, now)
    /\ call' = [op |-> call.op, outcome |-> "returned", before |-> rows]
    /\ UNCHANGED <<pool, now, ready, retry, tasks, nextTid, watcher,
                   sent, lastUntil, cancelledEarly>>

NextRecoverCall == RecoverCall

SpecRecoverCall == InitRecoverCall /\ [][NextRecoverCall]_vars

RecoverReturned ==
    call.op = "recover_stuck_broadcasts" /\ call.outcome = "returned"

(* C33: the recovery pass changes exactly the rows that are Broadcasting   *)
(* with next_action_at NULL: they become RetryScheduled, due now, without  *)
(* lease, attempts and raw_tx as they were; every other row is untouched   *)
RecoveryFrame ==
    RecoverReturned =>
      \A id \in TxIds :
        IF /\ call.before[id].status = Broadcasting
           /\ call.before[id].next_action_at = NoTime
        THEN /\ rows[id].status = RetryScheduled
             /\ rows[id].next_action_at = now
             /\ rows[id].lease_owner = NoOwner
             /\ rows[id].lease_until = NoTime
             /\ rows[id].attempts = call.before[id].attempts
             /\ rows[id].raw_tx = call.before[id].raw_tx
             /\ rows[id] # call.before[id]
        ELSE rows[id] = call.before[id]

(* one pass recovered a stuck row and passed over a Broadcasting row that *)
(* has a due time                                                         *)
StuckRecoveredDueSkipped ==
    /\ RecoverReturned
    /\ \E id \in TxIds :
          /\ call.before[id].status = Broadcasting
          /\ call.before[id].next_action_at = NoTime
          /\ rows[id].status = RetryScheduled
    /\ \E id \in TxIds :
          /\ call.before[id].status = Broadcasting
          /\ call.before[id].next_action_at # NoTime
          /\ rows[id].status = Broadcasting

-----------------------------------------------------------------------------
(* C34: a stored row has no next_action_at exactly when it is terminal or  *)
(* Broadcasting: a lease leaves no due time on the row, a Queued or        *)
(* RetryScheduled row has one                                              *)
NextActionNullIffTerminalOrInFlight ==
    \A id \in TxIds :
        Stored(id) =>
          (rows[id].next_action_at = NoTime
             <=> rows[id].status \in TerminalStatuses \cup {Broadcasting})

-----------------------------------------------------------------------------
(* The rotation of broadcast_raw_tx over the endpoints: every endpoint     *)
(* refuses with a text of its own, so the outcome's error lists the        *)
(* endpoints the call contacted, in order; handle_broadcast passes         *)
(* record.attempts and writes attempts + 1                                 *)

MaxHttp == 3

(* the text endpoint i (0-based) answers with: retryable, naming i *)
EndpointMessage(i) == <<"connection refused", ToString(i)>>

RefusingEndpoints(total) ==
    [ i \in 1..total |-> [kind |-> "err", msg |-> EndpointMessage(i - 1)] ]

RotationCalls ==
    [op : {"broadcast_attempts"}, total : 1..MaxHttp,
     fanout : 0..(MaxHttp + 1), first : 0..MaxHttp, attempts : {0},
     contacted : {<<>>}]

InitRotation ==
    /\ pool = {}
    /\ now = 0
    /\ rows = [ id \in TxIds |-> AbsentRow ]
    /\ ready = [ id \in TxIds |-> NoTime ]
    /\ retry = [ id \in TxIds |-> NoTime ]
    /\ tasks = {}
    /\ nextTid = 1
    /\ watcher = IdleWatcher
    /\ sent = [ id \in TxIds |-> "never" ]
    /\ lastUntil = [ id \in TxIds |-> NoTime ]
    /\ cancelledEarly = [ id \in TxIds |-> FALSE ]
    /\ call \in RotationCalls

(* scheduler.rs lines 138-147: one more attempt of the row, the counter   *)
(* being first + attempts; contacted gains the list of this call          *)
BroadcastAttempt ==
    /\ call.op = "broadcast_attempts"
    /\ call.attempts < call.total
    /\ \E outcome \in {BroadcastRawTx(RefusingEndpoints(call.total),
                                      call.fanout,
                                      call.first + call.attempts)} :
          call' = [call EXCEPT !.attempts = @ + 1,
                               !.contacted = Append(@, outcome.error)]
    /\ UNCHANGED <<pool, now, rows, ready, retry, tasks, nextTid, watcher,
                   sent, lastUntil, cancelledEarly>>

NextRotation == BroadcastAttempt

SpecRotation == InitRotation /\ [][NextRotation]_vars

(* the endpoints one call must contact, in order *)
RotationOf(total, fanout, attempt) ==
    [ i \in 1..Min(Max(fanout, 1), total) |->
        EndpointMessage(((attempt % total) + (i - 1)) % total) ]

(* C35: with N >= 1 endpoints a call with counter a contacts exactly the  *)
(* min(max(fanout,1),N) distinct endpoints (a mod N + i) mod N, and with  *)
(* fan-out 1 the calls for N consecutive counters contact every endpoint  *)
(* exactly once                                                           *)
RotationCoversEndpoints ==
    call.op = "broadcast_attempts" =>
      /\ \A k \in 1..Len(call.contacted) :
            /\ call.contacted[k]
                 = RotationOf(call.total, call.fanout, call.first + k - 1)
            /\ Cardinality(SeqRange(call.contacted[k]))
                 = Min(Max(call.fanout, 1), call.total)
      /\ (call.fanout = 1 /\ call.attempts = call.total)
            => /\ { call.contacted[k][1] : k \in 1..call.total }
                    = { EndpointMessage(i) : i \in 0..(call.total - 1) }
               /\ \A k \in 1..call.total : Len(call.contacted[k]) = 1

(* three endpoints, fan-out 1, a counter that starts past the first      *)
(* endpoint: three attempts wrapped around and met each endpoint once    *)
WrappedRotation ==
    /\ call.op = "broadcast_attempts"
    /\ call.total = MaxHttp /\ call.fanout = 1 /\ call.first = 2
    /\ call.attempts = call.total
    /\ call.contacted[2] = <<EndpointMessage(0)>>

-----------------------------------------------------------------------------
(* broadcaster.rs classify_error over error texts of up to MaxPhrases      *)
(* phrases, in lower and in mixed case                                     *)

MaxPhrases == 2

Phrases ==
    { "already known", "known transaction", "already imported",
      "already exists", "ALREADY KNOWN", "Known Transaction",
      "invalid", "malformed", "signature", "fee payer", "expired",
      "nonce key", "Invalid", "Fee Payer", "EXPIRED",
      "timeout", "temporary", "Timeout", "nonce too low" }

ErrorTexts == UNION { [1..n -> Phrases] : n \in 0..MaxPhrases }

InitClassify ==
    /\ pool = {}
    /\ now = 0
    /\ rows = [ id \in TxIds |-> AbsentRow ]
    /\ ready = [ id \in TxIds |-> NoTime ]
    /\ retry = [ id \in TxIds |-> NoTime ]
    /\ tasks = {}
    /\ nextTid = 1
    /\ watcher = IdleWatcher
    /\ sent = [ id \in TxIds |-> "never" ]
    /\ lastUntil = [ id \in TxIds |-> NoTime ]
    /\ cancelledEarly = [ id \in TxIds |-> FALSE ]
    /\ call \in [op : {"classify_error"}, message : ErrorTexts,
                 class : {"called"}]

ClassifyCall ==
    /\ call.op = "classify_error" /\ call.class = "called"
    /\ call' = [call EXCEPT !.class = ClassifyError(call.message)]
    /\ UNCHANGED <<pool, now, rows, ready, retry, tasks, nextTid, watcher,
                   sent, lastUntil, cancelledEarly>>

NextClassify == ClassifyCall

SpecClassify == InitClassify /\ [][NextClassify]_vars

(* the phrases by kind, whatever their case *)
AlreadyKnownPhrases ==
    { "already known", "known transaction", "already imported",
      "already exists", "ALREADY KNOWN", "Known Transaction" }

InvalidityPhrases ==
    { "invalid", "malformed", "signature", "fee payer", "expired",
      "nonce key", "Invalid", "Fee Payer", "EXPIRED" }

Classified == call.op = "classify_error" /\ call.class # "called"

(* C36: a text with an already-known phrase is AlreadyKnown, otherwise a   *)
(* text with an invalidity keyword is Invalid, otherwise the text is       *)
(* Retry, whatever the case of its letters                                 *)
ClassifiedByPhrase ==
    Classified =>
      call.class =
        IF SeqRange(call.message) \cap AlreadyKnownPhrases # {}
        THEN "AlreadyKnown"
        ELSE IF SeqRange(call.message) \cap InvalidityPhrases # {}
        THEN "Invalid"
        ELSE "Retry"

(* an invalidity keyword came first, an already-known phrase in capitals  *)
(* after it                                                               *)
AlreadyKnownOutweighsInvalid ==
    /\ Classified
    /\ call.message = <<"expired", "ALREADY KNOWN">>
    /\ call.class = "AlreadyKnown"

-----------------------------------------------------------------------------
(* watcher.rs lines 121-142 group by group: the groups are the keys of a   *)
(* BTreeMap, visited in key order, and a failed parse_address or           *)
(* fetch_current_nonce leaves the function through the ? operator          *)

NoGroup == <<"nobody", "nokey">>

(* the byte order of the keys (sender, nonce_key) *)
SenderOrder == <<"alice", "mallory">>

NonceKeyOrder == <<"k1", "k1twin", "random">>

IndexOf(seq, x) == CHOOSE i \in 1..Len(seq) : seq[i] = x

GroupBefore(g, h) ==
    \/ IndexOf(SenderOrder, g[1]) < IndexOf(SenderOrder, h[1])
    \/ /\ g[1] = h[1]
       /\ IndexOf(NonceKeyOrder, g[2]) < IndexOf(NonceKeyOrder, h[2])

(* the rows of the groups the loop reaches when the query of group        *)
(* failing fails; with NoGroup every query is answered                    *)
ReachedRows(pending, failing) ==
    { id \in pending :
        \/ failing = NoGroup
        \/ GroupBefore(<<rows[id].sender, rows[id].nonce_key>>, failing) }

WatcherNoncePass(current_nonce, failing) ==
    /\ watcher.pc = "nonces"
    /\ rows' = MarkStaleRows(rows, ReachedRows(watcher.pending, failing),
                             current_nonce)
    /\ watcher' = IdleWatcher
    /\ call' = [op |-> "nonce_pass", pending |-> watcher.pending,
                current_nonce |-> current_nonce, failing |-> failing]
    /\ UNCHANGED <<pool, now, ready, retry, tasks, nextTid, sent,
                   lastUntil, cancelledEarly>>

NextWatcherErrors ==
    \/ WatcherBegin
    \/ \E receipt \in ReceiptAnswers : WatcherVisit(receipt)
    \/ \E current_nonce \in [NonceGroups(watcher.pending) -> NonceAnswers],
          failing \in NonceGroups(watcher.pending) \cup {NoGroup} :
          WatcherNoncePass(current_nonce, failing)
    \/ TimeAdvance

SpecWatcherErrors == InitWatcher /\ [][NextWatcherErrors]_vars

NoncePassStep == call' # call /\ call'.op = "nonce_pass"

(* C37: when the nonce query of one group fails in a watcher tick, the    *)
(* rows of the other groups are still handled in that tick: those whose   *)
(* nonce the chain has passed become StaleByNonce                         *)
OtherGroupsStillHandled ==
    [][NoncePassStep
       => \A id \in watcher.pending :
            (/\ <<rows[id].sender, rows[id].nonce_key>> # call'.failing
             /\ rows[id].nonce
                  < call'.current_nonce[<<rows[id].sender,
                                          rows[id].nonce_key>>])
            => rows'[id].status = StaleByNonce]_vars

-----------------------------------------------------------------------------
(* db.rs cancel_group against a broadcast task that holds the record its   *)
(* lease returned: handle_broadcast reads raw_tx from that record          *)

(* the step in which a task passes lines 125-145 and hands the bytes of   *)
(* row id to the broadcaster                                               *)
BytesGoOut(id) ==
    \E t \in tasks' :
        /\ t.id = id
        /\ t.pc = "sent"
        /\ \A u \in tasks : u.tid = t.tid => u.pc = "start"

(* C38: once cancel_group has returned for a group, no endpoint receives  *)
(* the bytes of a row of that group, leased rows included                 *)
NoBytesAfterCancel ==
    [][\A id \in TxIds :
         rows[id].status = CanceledLocally => ~ BytesGoOut(id)]_vars

-----------------------------------------------------------------------------
(* api.rs store_transactions as the database runs it: one transaction per  *)
(* request, opened with pool.begin() at the default isolation level, whose *)
(* SELECTs of lines 733-755 take no lock and see the committed rows only;  *)
(* call holds the requests between their checks and their commit           *)

MaxOpen == 2

Hashes(batch) == [ i \in 1..Len(batch) |-> batch[i].tx_hash ]

InitConcurrent ==
    /\ pool \in IngressPools
    /\ now = 0
    /\ rows = [ id \in TxIds |-> AbsentRow ]
    /\ ready = [ id \in TxIds |-> NoTime ]
    /\ retry = [ id \in TxIds |-> NoTime ]
    /\ tasks = {}
    /\ nextTid = 1
    /\ watcher = IdleWatcher
    /\ sent = [ id \in TxIds |-> "never" ]
    /\ lastUntil = [ id \in TxIds |-> NoTime ]
    /\ cancelledEarly = [ id \in TxIds |-> FALSE ]
    /\ call = [op |-> "store_transactions", open |-> {}, last |-> "none"]

(* lines 695-755: begin, the checks within the batch and against the      *)
(* stored rows; a failed check answers 400 and drops the transaction      *)
StoreChecks(batch) ==
    LET prepared == [ i \in 1..Len(batch) |->
                        PrepareNewTxFromParsed(batch[i], now) ]
    IN  /\ Cardinality(call.open) < MaxOpen
        /\ \A i \in 1..Len(batch) : prepared[i].ok
        /\ \A c \in call.open : c.batch # batch
        /\ IF BatchValid(rows, prepared)
           THEN call' = [call EXCEPT
                           !.open = @ \cup {[batch |-> batch,
                                             prepared |-> prepared]},
                           !.last = "checked"]
           ELSE call' = [call EXCEPT !.last = "rejected"]
        /\ UNCHANGED <<pool, now, rows, ready, retry, tasks, nextTid, watcher,
                       sent, lastUntil, cancelledEarly>>

(* lines 757-775: the inserts, the commit and schedule_records *)
StoreCommit(c) ==
    /\ c \in call.open
    /\ rows' = InsertAll(rows, c.prepared)
    /\ ready' = ScheduleRecords(ready, rows', Hashes(c.batch))
    /\ call' = [call EXCEPT !.open = @ \ {c}, !.last = "committed"]
    /\ UNCHANGED <<pool, now, retry, tasks, nextTid, watcher, sent,
                   lastUntil, cancelledEarly>>

NextConcurrent ==
    \/ \E batch \in IngressBatches : StoreChecks(batch)
    \/ \E c \in call.open : StoreCommit(c)
    \/ TimeAdvance

SpecConcurrent == InitConcurrent /\ [][NextConcurrent]_vars

(* C39: a batch commits only if its checks hold against the rows stored at *)
(* its commit, so two concurrent batches of one group whose rows together *)
(* break the nonce_key rule or the valid_before order never both commit   *)
ChecksHoldAtCommit ==
    [][\A c \in call.open :
         rows' = InsertAll(rows, c.prepared) /\ c \notin call'.open
         => BatchValid(rows, c.prepared)]_vars

-----------------------------------------------------------------------------
(* api.rs validate_nonce_valid_before_order as a function of the list     *)
(* store_transactions builds: the rows of the batch in batch order, then  *)
(* the stored rows in the order the SELECT returns them                   *)

MaxPairs == 3

Pairs == (0..1) \X {NoTime, 1, 2}

PairLists == UNION { [1..n -> Pairs] : n \in 1..MaxPairs }

(* the same pairs supplied in another order *)
Reorderings(pairs) ==
    { [ i \in 1..Len(pairs) |-> pairs[f[i]] ] :
        f \in { g \in [1..Len(pairs) -> 1..Len(pairs)] :
                  \A i, j \in 1..Len(pairs) : g[i] = g[j] => i = j } }

InitValidate ==
    /\ pool = {}
    /\ now = 0
    /\ rows = [ id \in TxIds |-> AbsentRow ]
    /\ ready = [ id \in TxIds |-> NoTime ]
    /\ retry = [ id \in TxIds |-> NoTime ]
    /\ tasks = {}
    /\ nextTid = 1
    /\ watcher = IdleWatcher
    /\ sent = [ id \in TxIds |-> "never" ]
    /\ lastUntil = [ id \in TxIds |-> NoTime ]
    /\ cancelledEarly = [ id \in TxIds |-> FALSE ]
    /\ \E pairs \in PairLists :
          call = [op |-> "validate_nonce_valid_before_order",
                  pairs |-> pairs, outcome |-> "called"]

ValidateCall ==
    /\ call.outcome = "called"
    /\ \E supplied \in Reorderings(call.pairs) :
          call' = [op |-> "validate_nonce_valid_before_order",
                   pairs |-> call.pairs,
                   outcome |-> "returned",
                   ok |-> ValidateNonceValidBeforeOrder(call.pairs),
                   supplied |-> supplied,
                   reordered_ok |-> ValidateNonceValidBeforeOrder(supplied)]
    /\ UNCHANGED <<pool, now, rows, ready, retry, tasks, nextTid, watcher,
                   sent, lastUntil, cancelledEarly>>

NextValidate == ValidateCall

SpecValidate == InitValidate /\ [][NextValidate]_vars

(* C40: the verdict of validate_nonce_valid_before_order is the same for  *)
(* every order in which the same pairs are supplied                       *)
VerdictIgnoresSupplyOrder ==
    call.outcome = "returned" => call.ok = call.reordered_ok

====
